---- MODULE Spec2Model ----
(***************************************************************************)
(* Verification model of neuro_estimator_nodejs: the connection manager,   *)
(* the HTTP streaming session and its routes, the LLM stream consumer and  *)
(* its controllers, and the line-item mutation engine with its parser.     *)
(*                                                                         *)
(* Each subsystem has its own specification over the shared variables:     *)
(*   SpecCM     ConnectionManager driven through its public methods        *)
(*   SpecConnect  /api/stream/connect admission control                    *)
(*   SpecRoute  /api/stream/connect sessions, timers and shutdown          *)
(*   SpecCtl    streamEstimate / streamEstimateProgress and the generator  *)
(*   SpecApply  applyLineItemChanges over the estimate_items store         *)
(*   SpecApi    /api/stream/connect, /stats and DELETE /connection/:id     *)
(*   SpecErr    streamErrorHandler helpers on one response                 *)
(*   SpecBeat   heartbeat timers of one user's /connect sessions           *)
(*   SpecCast   ConnectionManager with fresh ids and broadcast             *)
(*   SpecTurn   registry operations statement by statement, in turns       *)
(*   SpecCreate project creation after a generation                        *)
(***************************************************************************)
EXTENDS Integers, Sequences, FiniteSets, TLC

VARIABLES
    connections,           \* ConnectionManager.connections : id -> entry
    userConnectionCounts,  \* ConnectionManager.userConnectionCounts : user -> n
    res,                   \* response objects, indexed by handle
    ctl,                   \* the streaming controller invocation
    gen,                   \* the generateEstimateStream generator object
    store,                 \* estimate_items rows of the project, by id
    nextId,                \* identity sequence of estimate_items
    apply,                 \* the applyLineItemChanges invocation
    projects               \* rows of the projects table, by id

vars == <<connections, userConnectionCounts, res, ctl, gen, store, nextId, apply, projects>>

cmVars == <<connections, userConnectionCounts, res>>
ctlVars == <<ctl, gen>>
applyVars == <<store, nextId, apply, projects>>

(***************************************************************************)
(* Bounds                                                                  *)
(***************************************************************************)
MaxAdds == 3            \* add() calls in one behaviour of SpecCM
MaxSessions == 4        \* /connect requests in one behaviour of SpecConnect
MaxStreams == 2         \* /connect requests in one behaviour of SpecRoute
MaxIds == 2             \* connection ids offered to add() in SpecCM
MaxBeats == 1           \* heartbeat ticks per session
MaxChunks == 3          \* chunks delivered by the provider stream
MaxBatch == 3            \* instructions in one batch
MaxFaults == 1           \* failures the store reports during one batch
MaxProgress == 2         \* instructions in one short progress request
MaxPairs == 2            \* key=value pairs in one parser input
MaxApiSessions == 4      \* /connect requests in one behaviour of SpecApi
MaxCalls == 1            \* /stats and DELETE requests in one behaviour of SpecApi
MaxErrorCalls == 2       \* calls of the error helpers on one response in SpecErr
MaxBeatSessions == 4     \* /connect requests in one behaviour of SpecBeat
MaxCastAdds == 3         \* add() calls in one behaviour of SpecCast
MaxBroadcasts == 1       \* broadcast() calls in one behaviour of SpecCast
MaxTurnSessions == 4     \* /connect requests in one behaviour of SpecTurn
MaxShutdowns == 1        \* closeAll() calls in one behaviour of SpecTurn
MaxLineItems == 2        \* lineItems of a JSON-mode estimate in SpecCreate

Users == {"u1", "u2"}
ConnIds == 1..MaxIds

(***************************************************************************)
(* Generic helpers                                                         *)
(***************************************************************************)
Range(f) == {f[x] : x \in DOMAIN f}

Last(s) == s[Len(s)]

\* Map.get(k) || dflt
GetOr(f, k, dflt) == IF k \in DOMAIN f THEN f[k] ELSE dflt

\* Map.set(k, v)
MapSet(f, k, v) == [x \in (DOMAIN f) \cup {k} |-> IF x = k THEN v ELSE f[x]]

\* Map.delete(k)
MapDelete(f, k) == [x \in (DOMAIN f) \ {k} |-> f[x]]

EmptyMap == [x \in {} |-> 0]

(***************************************************************************)
(* Response objects.  A response is the express `res` (or, in SpecCM, the  *)
(* object handed to add()).  `wire` is what res.write accepted before      *)
(* res.end; `lateWrites` are res.write calls made after res.end.           *)
(***************************************************************************)
NewResponse(user, headersSent, hasStream) ==
    [ user         |-> user,
      headersSent  |-> headersSent,
      hasStream    |-> hasStream,
      writableEnded |-> FALSE,
      status       |-> 200,
      wire         |-> <<>>,
      lateWrites   |-> <<>>,
      ends         |-> 0,
      heartbeat    |-> FALSE,
      beats        |-> 0,
      closed       |-> FALSE,
      connId       |-> 0,
      testTimer    |-> FALSE,
      body         |-> [type |-> "none"],
      destroyed    |-> FALSE ]

\* res.write(line)
ResWrite(r, ev) ==
    IF r.writableEnded
    THEN [r EXCEPT !.lateWrites = Append(@, ev)]
    ELSE [r EXCEPT !.wire = Append(@, ev), !.headersSent = TRUE]

\* res.end()
ResEnd(r) ==
    [r EXCEPT !.writableEnded = TRUE, !.headersSent = TRUE, !.ends = @ + 1]

\* res.stream.write(data)
StreamWrite(r, ev) == ResWrite(r, ev)

\* res.stream.writeHeartbeat()
StreamWriteHeartbeat(r) == ResWrite(r, "heartbeat")

\* res.stream.end(finalData = null)
StreamEnd(r, finalData) ==
    ResEnd(IF finalData /= "none" THEN ResWrite(r, finalData) ELSE r)

(***************************************************************************)
(* ConnectionManager                                                       *)
(***************************************************************************)
CM == [conns |-> connections, counts |-> userConnectionCounts, res |-> res]

\* getUserConnectionCount(userId)
getUserConnectionCount(counts, userId) == GetOr(counts, userId, 0)

getUserConnections_AnyUser(conns, userId) == DOMAIN conns

\* getUserConnections(userId)
getUserConnections(conns, userId) ==
    {id \in DOMAIN conns : conns[id].userId = userId}

AddOp_SignSlip(cm, id, h, userId) ==
    [cm EXCEPT
        !.conns = MapSet(@, id, [response |-> h, userId |-> userId, bytesWritten |-> 0]),
        !.counts = MapSet(@, userId, getUserConnectionCount(@, userId) - 1)]

\* add(id, connection, userId)
AddOp(cm, id, h, userId) ==
    [cm EXCEPT
        !.conns = MapSet(@, id, [response |-> h, userId |-> userId, bytesWritten |-> 0]),
        !.counts = MapSet(@, userId, getUserConnectionCount(@, userId) + 1)]

RemoveOp_AlwaysEnds(cm, id) ==
    IF id \notin DOMAIN cm.conns THEN cm
    ELSE LET conn == cm.conns[id]
             userCount == getUserConnectionCount(cm.counts, conn.userId)
             r == cm.res[conn.response]
         IN [ conns  |-> MapDelete(cm.conns, id),
              counts |-> IF userCount > 0
                         THEN MapSet(cm.counts, conn.userId, userCount - 1)
                         ELSE cm.counts,
              res    |-> [cm.res EXCEPT ![conn.response] = ResEnd(r)] ]

\* remove(id)
RemoveOp(cm, id) ==
    IF id \notin DOMAIN cm.conns THEN cm
    ELSE LET conn == cm.conns[id]
             userCount == getUserConnectionCount(cm.counts, conn.userId)
             r == cm.res[conn.response]
         IN [ conns  |-> MapDelete(cm.conns, id),
              counts |-> IF userCount > 0
                         THEN MapSet(cm.counts, conn.userId, userCount - 1)
                         ELSE cm.counts,
              res    |-> IF ~r.headersSent
                         THEN [cm.res EXCEPT ![conn.response] = ResEnd(r)]
                         ELSE cm.res ]

\* updateActivity(id, bytes)
UpdateActivityOp(cm, id, bytes) ==
    IF id \notin DOMAIN cm.conns THEN cm
    ELSE [cm EXCEPT !.conns[id].bytesWritten = @ + bytes]

\* one promise executor of closeAll, for the entry `id`
CloseOne(cm, id) ==
    LET conn == cm.conns[id]
        r == cm.res[conn.response]
        shut == IF r.headersSent /\ r.hasStream
                THEN [cm EXCEPT !.res[conn.response] =
                         StreamEnd(StreamWrite(r, "server_shutdown"), "none")]
                ELSE cm
    IN RemoveOp(shut, id)

RECURSIVE CloseEach(_, _)
CloseEach(cm, ids) ==
    IF ids = {} THEN cm
    ELSE LET id == CHOOSE x \in ids : \A y \in ids : x <= y
         IN CloseEach(CloseOne(cm, id), ids \ {id})

\* closeAll(): the forEach runs every executor in one event-loop turn
CloseAllOp(cm) == CloseEach(cm, DOMAIN cm.conns)

SetCM(cm) ==
    /\ connections' = cm.conns
    /\ userConnectionCounts' = cm.counts
    /\ res' = cm.res

(***************************************************************************)
(* Idle values of the subsystems a specification does not drive            *)
(***************************************************************************)
IdleCtl == [pc |-> "idle"]
IdleGen == [pc |-> "idle"]
IdleApply == [pc |-> "idle"]

(***************************************************************************)
(* SpecCM: the manager driven through add / remove / closeAll with         *)
(* arbitrary arguments, as its unit tests drive it                         *)
(***************************************************************************)
InitCM ==
    /\ connections = EmptyMap
    /\ userConnectionCounts = EmptyMap
    /\ res = <<>>
    /\ ctl = IdleCtl
    /\ gen = IdleGen
    /\ store = EmptyMap
    /\ nextId = 1
    /\ apply = IdleApply
    /\ projects = EmptyMap

\* connectionManager.add(id, connection, userId) with a new response object
Add(id, userId, headersSent, hasStream) ==
    /\ Len(res) < MaxAdds
    /\ LET h == Len(res) + 1
           cm == [CM EXCEPT !.res = Append(@, NewResponse(userId, headersSent, hasStream))]
       IN SetCM(AddOp(cm, id, h, userId))
    /\ UNCHANGED <<ctlVars, applyVars>>

\* connectionManager.remove(id), registered or not
Remove(id) ==
    /\ SetCM(RemoveOp(CM, id))
    /\ UNCHANGED <<ctlVars, applyVars>>

\* await connectionManager.closeAll()
CloseAll ==
    /\ SetCM(CloseAllOp(CM))
    /\ UNCHANGED <<ctlVars, applyVars>>

NextCM ==
    \/ CloseAll
    \/ \E id \in ConnIds, u \in Users, hs \in BOOLEAN, st \in BOOLEAN : Add(id, u, hs, st)
    \/ \E id \in ConnIds : Remove(id)

SpecCM == InitCM /\ [][NextCM]_vars

(***************************************************************************)
(* SpecRoute: GET /api/stream/connect behind httpStreamingMiddleware, the  *)
(* request's close notification, the session's timers, and shutdown        *)
(***************************************************************************)
ConnectionLimit == 3

\* length of the NDJSON line returned by res.stream.write
LineLength(ev) == 1

\* httpStreamingMiddleware: res.stream installed, heartbeat interval started
httpStreamingMiddleware(user) ==
    [NewResponse(user, FALSE, TRUE) EXCEPT !.heartbeat = TRUE]

ConnectOp_OffByOne(cm, userId) ==
    LET h == Len(cm.res) + 1
        r0 == httpStreamingMiddleware(userId)
        cm0 == [cm EXCEPT !.res = Append(@, r0)]
    IN IF getUserConnectionCount(cm.counts, userId) > ConnectionLimit
       THEN [cm0 EXCEPT !.res[h] = [ResEnd(r0) EXCEPT !.status = 429]]
       ELSE LET cm1 == AddOp(cm0, h, h, userId)
                cm2 == [cm1 EXCEPT !.res[h] =
                           [StreamWrite(@, "connection") EXCEPT !.connId = h, !.testTimer = TRUE]]
            IN UpdateActivityOp(cm2, h, LineLength("connection"))

\* router.get('/connect'): middleware, limit check, registration, first event,
\* close listener and the 2-second timer, all in one event-loop turn
ConnectOp(cm, userId) ==
    LET h == Len(cm.res) + 1
        r0 == httpStreamingMiddleware(userId)
        cm0 == [cm EXCEPT !.res = Append(@, r0)]
    IN IF getUserConnectionCount(cm.counts, userId) >= ConnectionLimit
       THEN [cm0 EXCEPT !.res[h] = [ResEnd(r0) EXCEPT !.status = 429]]
       ELSE LET cm1 == AddOp(cm0, h, h, userId)
                cm2 == [cm1 EXCEPT !.res[h] =
                           [StreamWrite(@, "connection") EXCEPT !.connId = h, !.testTimer = TRUE]]
            IN UpdateActivityOp(cm2, h, LineLength("connection"))

\* a GET /api/stream/connect request of an authenticated user
Connect(userId) ==
    /\ Len(res) < MaxSessions
    /\ SetCM(ConnectOp(CM, userId))
    /\ UNCHANGED <<ctlVars, applyVars>>

\* the same request in SpecRoute
ConnectStream(userId) ==
    /\ Len(res) < MaxStreams
    /\ SetCM(ConnectOp(CM, userId))
    /\ UNCHANGED <<ctlVars, applyVars>>

ClientClose_KeepsHeartbeat(h) ==
    /\ ~res[h].closed
    /\ LET cm0 == [CM EXCEPT !.res[h].closed = TRUE]
       IN SetCM(IF res[h].connId /= 0 THEN RemoveOp(cm0, res[h].connId) ELSE cm0)
    /\ UNCHANGED <<ctlVars, applyVars>>

\* req 'close': the middleware's listener clears the heartbeat, then the
\* /connect listener (when it was registered) removes the connection
ClientClose(h) ==
    /\ ~res[h].closed
    /\ LET cm0 == [CM EXCEPT !.res[h].closed = TRUE, !.res[h].heartbeat = FALSE]
       IN SetCM(IF res[h].connId /= 0 THEN RemoveOp(cm0, res[h].connId) ELSE cm0)
    /\ UNCHANGED <<ctlVars, applyVars>>

\* the setTimeout callback of /connect
TestTimerFire(h) ==
    /\ res[h].testTimer
    /\ LET cm0 == [CM EXCEPT !.res[h].testTimer = FALSE]
       IN SetCM(IF res[h].headersSent /\ res[h].hasStream
                THEN UpdateActivityOp([cm0 EXCEPT !.res[h] = StreamWrite(@, "test")],
                                      res[h].connId, LineLength("test"))
                ELSE cm0)
    /\ UNCHANGED <<ctlVars, applyVars>>

\* the setInterval callback of httpStreamingMiddleware; the 30-second
\* interval cannot elapse before the 2-second timer of the same request
HeartbeatTick(h) ==
    /\ res[h].heartbeat
    /\ ~res[h].testTimer
    /\ res[h].beats < MaxBeats
    /\ res' = [res EXCEPT ![h] = [StreamWriteHeartbeat(@) EXCEPT !.beats = @ + 1]]
    /\ UNCHANGED <<connections, userConnectionCounts, ctlVars, applyVars>>

\* /connect admission: requests, disconnects, the delayed event, shutdown
NextConnect ==
    \/ \E u \in Users : Connect(u)
    \/ \E h \in DOMAIN res : ClientClose(h)
    \/ \E h \in DOMAIN res : TestTimerFire(h)
    \/ CloseAll

SpecConnect == InitCM /\ [][NextConnect]_vars

\* the streaming session with its heartbeat
NextRoute ==
    \/ \E u \in Users : ConnectStream(u)
    \/ \E h \in DOMAIN res : ClientClose(h)
    \/ \E h \in DOMAIN res : TestTimerFire(h)
    \/ \E h \in DOMAIN res : HeartbeatTick(h)
    \/ CloseAll

SpecRoute == InitCM /\ [][NextRoute]_vars



(***************************************************************************)
(* SpecApi: the JSON routes of /api/stream next to /connect sessions, for   *)
(* requests that arrive before the 2-second event of a session is due      *)
(***************************************************************************)
\* res.status(status).json(body)
ResJson(r, status, body) == [ResEnd(r) EXCEPT !.status = status, !.body = body]

\* getStats(); duration and idle are clock readings and are left out
getStats(conns, counts) ==
    [ totalConnections |-> Cardinality(DOMAIN conns),
      userCounts       |-> counts,
      connections      |-> {[id |-> id, userId |-> conns[id].userId,
                             bytesWritten |-> conns[id].bytesWritten] : id \in DOMAIN conns} ]

\* { ...stats, connections: stats.connections.filter(conn => conn.userId === req.user.id) }
UserStats(conns, counts, userId) ==
    LET stats == getStats(conns, counts)
    IN [ type             |-> "stats",
         totalConnections |-> stats.totalConnections,
         userCounts       |-> stats.userCounts,
         connections      |-> {conn \in stats.connections : conn.userId = userId} ]

\* router.get('/stats')
StatsOp(cm, userId) ==
    [cm EXCEPT !.res = Append(@, ResJson(NewResponse(userId, FALSE, FALSE), 200,
                                         UserStats(cm.conns, cm.counts, userId)))]

DeleteOp_NoOwnerCheck(cm, userId, id) ==
    LET h == Len(cm.res) + 1
        cm0 == [cm EXCEPT !.res = Append(@, NewResponse(userId, FALSE, FALSE))]
    IN IF id \notin DOMAIN cm.conns
       THEN [cm0 EXCEPT !.res[h] = ResJson(@, 404, [type |-> "error"])]
       ELSE [RemoveOp(cm0, id) EXCEPT !.res[h] = ResJson(@, 200, [type |-> "success"])]

\* router.delete('/connection/:id')
DeleteOp(cm, userId, id) ==
    LET h == Len(cm.res) + 1
        cm0 == [cm EXCEPT !.res = Append(@, NewResponse(userId, FALSE, FALSE))]
    IN IF id \notin getUserConnections(cm.conns, userId)
       THEN [cm0 EXCEPT !.res[h] = ResJson(@, 404, [type |-> "error"])]
       ELSE [RemoveOp(cm0, id) EXCEPT !.res[h] = ResJson(@, 200, [type |-> "success"])]

\* the /connect sessions among the responses
Sessions(rs) == {h \in DOMAIN rs : rs[h].hasStream}

\* a GET /api/stream/connect request in SpecApi
ConnectApi(userId) ==
    /\ Cardinality(Sessions(res)) < MaxApiSessions
    /\ SetCM(ConnectOp(CM, userId))
    /\ UNCHANGED <<ctlVars, applyVars>>

\* a GET /api/stream/stats request of an authenticated user
Stats(userId) ==
    /\ Len(res) - Cardinality(Sessions(res)) < MaxCalls
    /\ SetCM(StatsOp(CM, userId))
    /\ UNCHANGED <<ctlVars, applyVars>>

\* a DELETE /api/stream/connection/:id request of an authenticated user; the
\* id is one the server has issued or one it has not (0)
DeleteConnection(userId, id) ==
    /\ Len(res) - Cardinality(Sessions(res)) < MaxCalls
    /\ SetCM(DeleteOp(CM, userId, id))
    /\ UNCHANGED <<ctlVars, applyVars>>

\* req 'close' of a session
SessionClose(h) == res[h].hasStream /\ ClientClose(h)

NextApi ==
    \/ \E u \in Users : ConnectApi(u)
    \/ \E u \in Users : Stats(u)
    \/ \E u \in Users, id \in 0..Len(res) : DeleteConnection(u, id)
    \/ \E h \in DOMAIN res : SessionClose(h)

SpecApi == InitCM /\ [][NextApi]_vars


(***************************************************************************)
(* SpecErr: the helpers of streamErrorHandler.js on one response           *)
(***************************************************************************)
\* error.code of the errors handed to the helpers ("none": no code property)
ThrownCodes ==
    {"none", "EPIPE", "ECONNRESET", "QUOTA_EXCEEDED", "TIMEOUT", "RATE_LIMIT",
     "AUTH_FAILED", "TEST_CODE"}

\* new Error(message), with or without a code
NewError(message, code) == [message |-> message, code |-> code]

Thrown == {NewError("Test error", code) : code \in ThrownCodes}

\* the error event of streamError; the timestamp is a clock reading
ErrorData(error, recoverable) ==
    [ type        |-> "error",
      error       |-> error.message,
      code        |-> IF error.code = "none" THEN "UNKNOWN_ERROR" ELSE error.code,
      recoverable |-> recoverable ]

streamError_NeverEnds(r, error, recoverable) ==
    IF ~r.hasStream \/ ~r.headersSent
    THEN ResJson(r, 500, [type |-> "error", error |-> error.message,
                          code |-> IF error.code = "none" THEN "UNKNOWN_ERROR"
                                   ELSE error.code])
    ELSE StreamWrite(r, ErrorData(error, recoverable))

\* streamError(res, error, recoverable = true)
streamError(r, error, recoverable) ==
    IF ~r.hasStream \/ ~r.headersSent
    THEN ResJson(r, 500, [type |-> "error", error |-> error.message,
                          code |-> IF error.code = "none" THEN "UNKNOWN_ERROR"
                                   ELSE error.code])
    ELSE LET r1 == StreamWrite(r, ErrorData(error, recoverable))
         IN IF ~recoverable THEN StreamEnd(r1, "none") ELSE r1

handleStreamingError_AllRecoverable(error, r) ==
    IF error.code \in {"EPIPE", "ECONNRESET"} THEN r
    ELSE streamError(r, error, TRUE)

\* handleStreamingError(error, res)
handleStreamingError(error, r) ==
    IF error.code \in {"EPIPE", "ECONNRESET"} THEN r
    ELSE CASE error.code = "QUOTA_EXCEEDED" -> streamError(r, error, FALSE)
           [] error.code = "TIMEOUT" ->
                 streamError(r, NewError("Operation timed out", "none"), TRUE)
           [] error.code = "RATE_LIMIT" ->
                 streamError(r, NewError("Rate limit exceeded. Please try again later.",
                                         "none"), TRUE)
           [] error.code = "AUTH_FAILED" ->
                 streamError(r, NewError("Authentication failed", "none"), FALSE)
           [] OTHER -> streamError(r, error, TRUE)

\* the setTimeout callback of createStreamTimeout
createStreamTimeoutCallback(r) ==
    IF r.hasStream /\ ~r.writableEnded
    THEN streamError(r, NewError("Operation timed out", "none"), FALSE)
    ELSE r

NoError == NewError("", "none")

\* a response with or without res.stream, before or after its first write,
\* open or ended, and no helper called yet
InitErr ==
    /\ connections = EmptyMap
    /\ userConnectionCounts = EmptyMap
    /\ \E hasStream \in BOOLEAN, headersSent \in BOOLEAN, writableEnded \in BOOLEAN :
          /\ writableEnded => headersSent
          /\ res = <<[NewResponse("u1", headersSent, hasStream)
                        EXCEPT !.writableEnded = writableEnded]>>
    /\ ctl = [pc |-> "helpers", timer |-> "none", calls |-> 0, rethrown |-> NoError,
              returned |-> FALSE]
    /\ gen = IdleGen
    /\ store = EmptyMap
    /\ nextId = 1
    /\ apply = IdleApply
    /\ projects = EmptyMap

ErrStep(r, c) ==
    /\ res' = <<r>>
    /\ ctl' = c
    /\ UNCHANGED <<connections, userConnectionCounts, gen, applyVars>>

\* createStreamTimeout(res, timeout)
CreateTimeout ==
    /\ ctl.pc = "helpers"
    /\ ctl.timer = "none"
    /\ ErrStep(res[1], [ctl EXCEPT !.timer = "armed"])

\* timeout.clear(): clearTimeout, before or after the timer has fired
ClearTimeout ==
    /\ ctl.pc = "helpers"
    /\ ctl.timer \in {"armed", "fired"}
    /\ ErrStep(res[1], [ctl EXCEPT !.timer = IF @ = "armed" THEN "cleared" ELSE @])

\* the window elapses
TimeoutFire ==
    /\ ctl.pc = "helpers"
    /\ ctl.timer = "armed"
    /\ ErrStep(createStreamTimeoutCallback(res[1]), [ctl EXCEPT !.timer = "fired"])

\* the handler writes an event of its own on the session
SessionWrite ==
    /\ ctl.pc = "helpers"
    /\ res[1].hasStream
    /\ ctl.calls < MaxErrorCalls
    /\ ErrStep(StreamWrite(res[1], [type |-> "data"]), [ctl EXCEPT !.calls = @ + 1])

\* the handler ends the session
SessionEnd ==
    /\ ctl.pc = "helpers"
    /\ res[1].hasStream
    /\ ctl.calls < MaxErrorCalls
    /\ ErrStep(StreamEnd(res[1], "none"), [ctl EXCEPT !.calls = @ + 1])

\* streamError(res, error, recoverable) called directly
StreamErrorCall(error, recoverable) ==
    /\ ctl.pc = "helpers"
    /\ ctl.calls < MaxErrorCalls
    /\ ErrStep(streamError(res[1], error, recoverable), [ctl EXCEPT !.calls = @ + 1])

\* handleStreamingError(error, res) called directly
HandleCall(error) ==
    /\ ctl.pc = "helpers"
    /\ ctl.calls < MaxErrorCalls
    /\ ErrStep(handleStreamingError(error, res[1]), [ctl EXCEPT !.calls = @ + 1])

\* withStreamErrorHandling(operation, res): the operation resolves
WithHandlingResolved ==
    /\ ctl.pc = "helpers"
    /\ ctl.calls < MaxErrorCalls
    /\ ErrStep(res[1], [ctl EXCEPT !.calls = @ + 1, !.returned = TRUE])

\* withStreamErrorHandling(operation, res): the operation rejects
WithHandlingRejected(error) ==
    /\ ctl.pc = "helpers"
    /\ ctl.calls < MaxErrorCalls
    /\ ErrStep(handleStreamingError(error, res[1]),
               [ctl EXCEPT !.calls = @ + 1, !.rethrown = error])

NextErr ==
    \/ CreateTimeout
    \/ ClearTimeout
    \/ TimeoutFire
    \/ SessionWrite
    \/ SessionEnd
    \/ \E error \in Thrown, recoverable \in BOOLEAN : StreamErrorCall(error, recoverable)
    \/ \E error \in Thrown : HandleCall(error)
    \/ WithHandlingResolved
    \/ \E error \in Thrown : WithHandlingRejected(error)

SpecErr == InitErr /\ [][NextErr]_vars


(***************************************************************************)
(* SpecBeat: the heartbeat timers of the /connect sessions of one user,    *)
(* opened at least 2 seconds apart; a fourth open one is rejected.  Node emits 'close' on every request,  *)
(* when its connection goes away or its response has finished.             *)
(***************************************************************************)
\* a GET /api/stream/connect request of user u1, at least 2 seconds after
\* the one before it
ConnectBeat ==
    /\ Len(res) < MaxBeatSessions
    /\ \A h \in DOMAIN res : ~res[h].testTimer
    /\ SetCM(ConnectOp(CM, "u1"))
    /\ UNCHANGED <<ctlVars, applyVars>>

NextBeat ==
    \/ ConnectBeat
    \/ \E h \in DOMAIN res : ClientClose(h)
    \/ \E h \in DOMAIN res : TestTimerFire(h)
    \/ \E h \in DOMAIN res : HeartbeatTick(h)
    \/ CloseAll

SpecBeat ==
    /\ InitCM
    /\ [][NextBeat]_vars
    /\ \A h \in 1..MaxBeatSessions : WF_vars(h \in DOMAIN res /\ ClientClose(h))


(***************************************************************************)
(* SpecCast: the manager driven through add with ids never used before,    *)
(* remove, closeAll and broadcast.  The objects handed to add() are        *)
(* arbitrary responses: with or without res.stream, headers sent or not,   *)
(* socket destroyed or not.  ctl counts the broadcast() calls made.        *)
(***************************************************************************)
BroadcastOp_All(cm, data) ==
    [cm EXCEPT !.res =
        [h \in DOMAIN cm.res |->
            IF \E id \in DOMAIN cm.conns : cm.conns[id].response = h
            THEN StreamWrite(cm.res[h], data)
            ELSE cm.res[h]]]

\* broadcast(data)
BroadcastOp(cm, data) ==
    [cm EXCEPT !.res =
        [h \in DOMAIN cm.res |->
            IF /\ \E id \in DOMAIN cm.conns : cm.conns[id].response = h
               /\ cm.res[h].hasStream
               /\ ~cm.res[h].destroyed
               /\ cm.res[h].headersSent
            THEN StreamWrite(cm.res[h], data)
            ELSE cm.res[h]]]

InitCast ==
    /\ connections = EmptyMap
    /\ userConnectionCounts = EmptyMap
    /\ res = <<>>
    /\ ctl = [pc |-> "cast", broadcasts |-> 0]
    /\ gen = IdleGen
    /\ store = EmptyMap
    /\ nextId = 1
    /\ apply = IdleApply
    /\ projects = EmptyMap

\* connectionManager.add(id, connection, userId) with an id not used before
AddFresh(userId, headersSent, hasStream, destroyed) ==
    /\ Len(res) < MaxCastAdds
    /\ LET h == Len(res) + 1
           r == [NewResponse(userId, headersSent, hasStream) EXCEPT !.destroyed = destroyed]
           cm == [CM EXCEPT !.res = Append(@, r)]
       IN SetCM(AddOp(cm, h, h, userId))
    /\ UNCHANGED <<ctlVars, applyVars>>

\* connectionManager.broadcast(data)
Broadcast ==
    /\ ctl.broadcasts < MaxBroadcasts
    /\ SetCM(BroadcastOp(CM, "broadcast"))
    /\ ctl' = [ctl EXCEPT !.broadcasts = @ + 1]
    /\ UNCHANGED <<gen, applyVars>>

NextCast ==
    \/ \E u \in Users, hs \in BOOLEAN, st \in BOOLEAN, d \in BOOLEAN : AddFresh(u, hs, st, d)
    \/ \E id \in 1..MaxCastAdds : Remove(id)
    \/ CloseAll
    \/ Broadcast

SpecCast == InitCast /\ [][NextCast]_vars


(***************************************************************************)
(* SpecTurn: the registry operations statement by statement.  A request    *)
(* handler, listener or closeAll() call runs as one event-loop turn: its   *)
(* statements are on ctl.stack and run to the end or to an `await`, where  *)
(* the rest is parked in ctl.suspended and other turns may start.          *)
(***************************************************************************)
Stmt(op, id, user) == [op |-> op, id |-> id, user |-> user]

\* add(id, connection, userId): connections.set, then userConnectionCounts.set
AddProgram(id, user) == <<Stmt("set", id, user), Stmt("increment", id, user)>>

\* remove(id): counter, response.end(), connections.delete
RemoveProgram(id) ==
    <<Stmt("decrement", id, ""), Stmt("end", id, ""), Stmt("delete", id, "")>>

\* router.get('/connect') after the middleware
ConnectProgram(id, user) ==
    <<Stmt("check", id, user)>> \o AddProgram(id, user) \o
    <<Stmt("write", id, user), Stmt("activity", id, user)>>

\* the executors of closeAll, entry by entry
RECURSIVE Executors(_, _)
Executors(ids, between) ==
    IF ids = {} THEN <<>>
    ELSE LET id == CHOOSE x \in ids : \A y \in ids : x <= y
         IN <<Stmt("shutdown", id, "")>> \o RemoveProgram(id) \o between
            \o Executors(ids \ {id}, between)

CloseAllProgram_AwaitEach(ids) ==
    Executors(ids, <<Stmt("await", 0, "")>>) \o <<Stmt("return", 0, "")>>

\* closeAll(): forEach runs every executor, then `await Promise.all(...)`
CloseAllProgram(ids) ==
    Executors(ids, <<>>) \o <<Stmt("await", 0, ""), Stmt("return", 0, "")>>

\* broadcast(data): one forEach
BroadcastProgram == <<Stmt("cast", 0, "")>>

\* the effect of one statement on the manager and the responses
Exec(cm, m) ==
    LET registered == m.id \in DOMAIN cm.conns
    IN CASE m.op = "set" ->
              [cm EXCEPT !.conns = MapSet(@, m.id, [response |-> m.id, userId |-> m.user,
                                                   bytesWritten |-> 0])]
         [] m.op = "increment" ->
              [cm EXCEPT !.counts = MapSet(@, m.user, getUserConnectionCount(@, m.user) + 1)]
         [] m.op = "decrement" ->
              IF registered /\ getUserConnectionCount(cm.counts, cm.conns[m.id].userId) > 0
              THEN [cm EXCEPT !.counts[cm.conns[m.id].userId] = @ - 1]
              ELSE cm
         [] m.op = "end" ->
              IF registered /\ ~cm.res[cm.conns[m.id].response].headersSent
              THEN [cm EXCEPT !.res[cm.conns[m.id].response] = ResEnd(@)]
              ELSE cm
         [] m.op = "delete" ->
              IF registered THEN [cm EXCEPT !.conns = MapDelete(@, m.id)] ELSE cm
         [] m.op = "shutdown" ->
              IF /\ registered
                 /\ cm.res[cm.conns[m.id].response].headersSent
                 /\ cm.res[cm.conns[m.id].response].hasStream
              THEN [cm EXCEPT !.res[cm.conns[m.id].response] =
                       StreamEnd(StreamWrite(@, "server_shutdown"), "none")]
              ELSE cm
         [] m.op = "write" ->
              [cm EXCEPT !.res[m.id] = [StreamWrite(@, "connection") EXCEPT !.connId = m.id]]
         [] m.op = "activity" -> UpdateActivityOp(cm, m.id, LineLength("connection"))
         [] m.op = "cast" -> BroadcastOp(cm, "broadcast")
         [] OTHER -> cm

IdleLoop == [pc |-> "turn", stack |-> <<>>, suspended |-> <<>>, shutdowns |-> 0,
             broadcasts |-> 0]

InitTurn ==
    /\ connections = EmptyMap
    /\ userConnectionCounts = EmptyMap
    /\ res = <<>>
    /\ ctl = IdleLoop
    /\ gen = IdleGen
    /\ store = EmptyMap
    /\ nextId = 1
    /\ apply = IdleApply
    /\ projects = EmptyMap

\* the event loop is between two turns
BetweenTurns == ctl.pc = "turn" /\ ctl.stack = <<>>

\* a GET /api/stream/connect request is dispatched
TurnConnect(user) ==
    /\ BetweenTurns
    /\ Len(res) < MaxTurnSessions
    /\ res' = Append(res, httpStreamingMiddleware(user))
    /\ ctl' = [ctl EXCEPT !.stack = ConnectProgram(Len(res) + 1, user)]
    /\ UNCHANGED <<connections, userConnectionCounts, gen, applyVars>>

\* the `close` listener of a session is dispatched
TurnClose(h) ==
    /\ BetweenTurns
    /\ ~res[h].closed
    /\ res' = [res EXCEPT ![h].closed = TRUE, ![h].heartbeat = FALSE]
    /\ ctl' = [ctl EXCEPT !.stack = IF res[h].connId /= 0 THEN RemoveProgram(h) ELSE <<>>]
    /\ UNCHANGED <<connections, userConnectionCounts, gen, applyVars>>

\* connectionManager.closeAll() is called
TurnCloseAll ==
    /\ BetweenTurns
    /\ ctl.shutdowns < MaxShutdowns
    /\ ctl.suspended = <<>>
    /\ ctl' = [ctl EXCEPT !.stack = CloseAllProgram(DOMAIN connections),
                          !.shutdowns = @ + 1]
    /\ UNCHANGED <<cmVars, gen, applyVars>>

\* connectionManager.broadcast(data) is called
TurnBroadcast ==
    /\ BetweenTurns
    /\ ctl.broadcasts < MaxBroadcasts
    /\ ctl' = [ctl EXCEPT !.stack = BroadcastProgram, !.broadcasts = @ + 1]
    /\ UNCHANGED <<cmVars, gen, applyVars>>

\* the running turn executes its next statement
TurnStep ==
    /\ ctl.pc = "turn"
    /\ ctl.stack /= <<>>
    /\ LET m == Head(ctl.stack)
           rest == Tail(ctl.stack)
       IN CASE m.op = "await" ->
                 /\ ctl' = [ctl EXCEPT !.stack = <<>>, !.suspended = rest]
                 /\ UNCHANGED cmVars
            [] m.op = "check" /\ getUserConnectionCount(userConnectionCounts, m.user)
                                    >= ConnectionLimit ->
                 /\ ctl' = [ctl EXCEPT !.stack = <<>>]
                 /\ res' = [res EXCEPT ![m.id] = [ResEnd(@) EXCEPT !.status = 429]]
                 /\ UNCHANGED <<connections, userConnectionCounts>>
            [] OTHER ->
                 /\ ctl' = [ctl EXCEPT !.stack = rest]
                 /\ SetCM(Exec(CM, m))
    /\ UNCHANGED <<gen, applyVars>>

\* the awaited promise has settled: the suspended call continues
TurnResume ==
    /\ BetweenTurns
    /\ ctl.suspended /= <<>>
    /\ ctl' = [ctl EXCEPT !.stack = ctl.suspended, !.suspended = <<>>]
    /\ UNCHANGED <<cmVars, gen, applyVars>>

NextTurn ==
    \/ \E u \in Users : TurnConnect(u)
    \/ \E h \in DOMAIN res : TurnClose(h)
    \/ TurnCloseAll
    \/ TurnBroadcast
    \/ TurnStep
    \/ TurnResume

SpecTurn == InitTurn /\ [][NextTurn]_vars

(***************************************************************************)
(* Strings are sequences of one-character strings.                         *)
(***************************************************************************)
UpperCase == <<"A", "B", "C", "D", "E", "F", "G", "H", "I", "J", "K", "L", "M", "N", "O", "P", "Q", "R", "S", "T", "U", "V", "W", "X", "Y", "Z">>
LowerCase == <<"a", "b", "c", "d", "e", "f", "g", "h", "i", "j", "k", "l", "m", "n", "o", "p", "q", "r", "s", "t", "u", "v", "w", "x", "y", "z">>

\* String.prototype.toLowerCase, one character
LowerChar(c) ==
    IF \E i \in 1..Len(UpperCase) : UpperCase[i] = c
    THEN LowerCase[CHOOSE i \in 1..Len(UpperCase) : UpperCase[i] = c]
    ELSE c

\* String.prototype.toLowerCase
ToLowerCase(s) == [i \in 1..Len(s) |-> LowerChar(s[i])]

\* String.prototype.startsWith
StartsWith(s, p) == Len(p) <= Len(s) /\ SubSeq(s, 1, Len(p)) = p

\* String.prototype.includes
Includes(s, p) ==
    \E i \in 1..(Len(s) - Len(p) + 1) : SubSeq(s, i, i + Len(p) - 1) = p

(***************************************************************************)
(* LLM stream consumer: GeminiStreamingService.generateEstimateStream      *)
(***************************************************************************)
\* messages of the errors the provider call or the token stream can raise
ProviderErrors ==
    { <<"Q", "u", "o", "t", "a", " ", "e", "x", "c", "e", "e", "d", "e", "d">>,
      <<"R", "e", "q", "u", "e", "s", "t", " ", "t", "i", "m", "e", "o", "u", "t">>,
      <<"A", "P", "I", " ", "k", "e", "y", " ", "n", "o", "t", " ", "v", "a", "l", "i", "d">>,
      <<"I", "n", "v", "a", "l", "i", "d", " ", "a", "r", "g", "u", "m", "e", "n", "t">>,
      <<"f", "e", "t", "c", "h", " ", "f", "a", "i", "l", "e", "d">> }

\* message of the error processStreamResponse raises
ProcessErrorMessage ==
    <<"F", "a", "i", "l", "e", "d", " ", "t", "o", " ", "p", "r", "o", "c", "e", "s", "s", " ", "A", "I", " ", "r", "e", "s", "p", "o", "n", "s", "e", ":", " ", "F", "a", "i", "l", "e", "d", " ", "t", "o", " ", "p", "a", "r", "s", "e", " ", "X", "M", "L", " ", "r", "e", "s", "p", "o", "n", "s", "e", ":", " ", "M", "i", "s", "s", "i", "n", "g", " ", "e", "s", "t", "i", "m", "a", "t", "e", " ", "d", "a", "t", "a", " ", "i", "n", " ", "X", "M", "L", " ", "r", "e", "s", "p", "o", "n", "s", "e">>

\* classifyError(error)
classifyError(message) ==
    LET m == ToLowerCase(message)
    IN IF Includes(m, <<"q", "u", "o", "t", "a">>) \/ Includes(m, <<"r", "a", "t", "e", " ", "l", "i", "m", "i", "t">>)
       THEN "QUOTA_ERROR"
       ELSE IF Includes(m, <<"t", "i", "m", "e", "o", "u", "t">>)
       THEN "TIMEOUT_ERROR"
       ELSE IF Includes(m, <<"a", "u", "t", "h">>) \/ Includes(m, <<"a", "p", "i", " ", "k", "e", "y">>)
       THEN "AUTH_ERROR"
       ELSE IF Includes(m, <<"i", "n", "v", "a", "l", "i", "d">>)
       THEN "VALIDATION_ERROR"
       ELSE "UNKNOWN_ERROR"


\* text fragments the provider can deliver; a text is a sequence of fragments
SegmentLength(seg) ==
    CASE seg = "prose" -> 100
      [] seg = "json"  -> 200
      [] seg = "xml"   -> 200

\* the keys whose pattern (title, totalAmount, currency, lineItems) matches
\* inside a fragment
SegmentFields(seg) ==
    CASE seg = "prose" -> {}
      [] seg = "json"  -> {"title", "totalAmount"}
      [] seg = "xml"   -> {}

ChunkTexts == {<<>>, <<"prose">>, <<"json">>, <<"xml">>}

PartialThreshold_Low == SegmentLength("json")

\* `accumulatedText.length > 300`
PartialThreshold == 300

\* accumulatedText.length
RECURSIVE TextLength(_)
TextLength(text) ==
    IF text = <<>> THEN 0 ELSE SegmentLength(Head(text)) + TextLength(Tail(text))

\* extractPartialData(text): the keys of partialData (empty for null)
extractPartialData(text) ==
    UNION {SegmentFields(text[i]) : i \in 1..Len(text)}

\* processXMLResponse(responseText) finds an <estimate> element
HasEstimate(text) == \E i \in 1..Len(text) : text[i] = "xml"

\* processStreamResponse(responseText, context) without responseStructure:
\* the XML path, then the jsonrepair fallback whose verdict is the library's
\* (it has nothing to repair in an empty text)
processStreamResponse(text, repairOk) ==
    IF HasEstimate(text) THEN "xml"
    ELSE IF repairOk /\ text /= <<>> THEN "repaired"
    ELSE "throw"

Event(type) ==
    [type |-> type, stage |-> "", code |-> "", message |-> <<>>, text |-> <<>>, fields |-> {}]

NewGen ==
    [ pc              |-> "start",
      accumulatedText |-> <<>>,
      chunkCount      |-> 0,
      yielded         |-> <<>>,
      processed       |-> <<>>,
      error           |-> <<>>,
      sent            |-> <<>>,
      partialFailures |-> 0 ]

\* a `yield` statement: the event goes to the consumer, the generator suspends
Yield(g, ev, pc) == [g EXCEPT !.yielded = Append(@, ev), !.pc = pc]

GenCatch_NoYield(g, message) ==
    [g EXCEPT !.error = message, !.pc = "threw"]

\* the catch block: classify, yield the error event, then (on resume) rethrow
GenCatch(g, message) ==
    Yield([g EXCEPT !.error = message],
          [Event("error") EXCEPT !.message = message, !.code = classifyError(message)],
          "after_error")

Accumulate_Overwrite(acc, chunkText) == chunkText

\* accumulatedText += chunkText
Accumulate(acc, chunkText) == acc \o chunkText

YieldPoints ==
    {"start", "after_ai_start", "after_request", "after_chunk", "after_progress",
     "after_partial", "after_ai_complete", "after_complete", "after_error"}

\* the consumer calls next(): the generator runs from its yield point to the
\* next yield, await, return or throw.
\* extractOk = FALSE is a partial extraction whose pattern matching
\* throws: extractPartialData catches and returns null
GenNextOp(g, repairOk, extractOk) ==
    CASE g.pc = "start" -> Yield(g, Event("ai_start"), "after_ai_start")
      [] g.pc = "after_ai_start" ->
            Yield(g, [Event("progress") EXCEPT !.stage = "request"], "after_request")
      [] g.pc = "after_request" -> [g EXCEPT !.pc = "await_provider"]
      [] g.pc = "after_chunk" ->
            Yield(g, [Event("progress") EXCEPT !.stage = "streaming"], "after_progress")
      [] g.pc = "after_progress" ->
            IF TextLength(g.accumulatedText) > PartialThreshold
            THEN IF ~extractOk
                 THEN [g EXCEPT !.pc = "await_chunk", !.partialFailures = @ + 1]
                 ELSE IF extractPartialData(g.accumulatedText) /= {}
                 THEN Yield(g, [Event("partial") EXCEPT
                                   !.fields = extractPartialData(g.accumulatedText)],
                            "after_partial")
                 ELSE [g EXCEPT !.pc = "await_chunk"]
            ELSE [g EXCEPT !.pc = "await_chunk"]
      [] g.pc = "after_partial" -> [g EXCEPT !.pc = "await_chunk"]
      [] g.pc = "after_ai_complete" ->
            LET g1 == [g EXCEPT !.processed = Append(@, g.accumulatedText)]
                out == processStreamResponse(g.accumulatedText, repairOk)
            IN IF out = "throw"
               THEN GenCatch(g1, ProcessErrorMessage)
               ELSE Yield(g1, [Event("complete") EXCEPT
                                  !.stage = out, !.text = g.accumulatedText],
                          "after_complete")
      [] g.pc = "after_complete" -> [g EXCEPT !.pc = "returned"]
      [] g.pc = "after_error" -> [g EXCEPT !.pc = "threw"]

\* generateContentStream resolves with the response stream
GenProviderResolved(g) == [g EXCEPT !.pc = "await_chunk"]

\* the response stream delivers one chunk
GenChunk(g, chunkText) ==
    LET g1 == [g EXCEPT !.sent = Append(@, chunkText)]
    IN IF chunkText = <<>> THEN g1
       ELSE Yield([g1 EXCEPT !.accumulatedText = Accumulate(@, chunkText),
                             !.chunkCount = @ + 1],
                  [Event("chunk") EXCEPT !.text = chunkText],
                  "after_chunk")

\* the response stream is exhausted
GenStreamEnd(g) == Yield(g, Event("ai_complete"), "after_ai_complete")


(***************************************************************************)
(* SpecCtl: one request to streamEstimate or streamEstimateProgress        *)
(***************************************************************************)
BatchSize == 10

\* instructions.length of a progress request
ProgressTotals == {0, 3, 12}

Requests ==
    [ handler   : {"estimate", "progress"},
      bodyValid : BOOLEAN,      \* the required body fields are present
      hasUser   : BOOLEAN,      \* req.user is set
      apiKey    : BOOLEAN,      \* GOOGLE_API_KEY or GEMINI_API_KEY is set
      total     : ProgressTotals ]

InitCtl ==
    /\ connections = EmptyMap
    /\ userConnectionCounts = EmptyMap
    /\ res = <<>>
    /\ \E rq \in Requests :
          /\ rq.handler = "estimate" => rq.total = 0
          /\ ctl = [pc |-> "request", handler |-> rq.handler, bodyValid |-> rq.bodyValid,
                    hasUser |-> rq.hasUser, apiKey |-> rq.apiKey, total |-> rq.total,
                    processed |-> 0, completeData |-> FALSE]
    /\ gen = IdleGen
    /\ store = EmptyMap
    /\ nextId = 1
    /\ apply = IdleApply
    /\ projects = EmptyMap

\* write a sequence of events on the session
RECURSIVE WriteAll(_, _)
WriteAll(r, evs) ==
    IF evs = <<>> THEN r ELSE WriteAll(StreamWrite(r, Head(evs)), Tail(evs))

\* the handler returns or throws: `finally { res.stream.end() }`
Finally(r) == StreamEnd(r, "none")

\* request validation failed: error event, end, return, and the finally block
ValidationFailure(r) == Finally(StreamEnd(StreamWrite(r, "error"), "none"))

\* streamEstimate up to its first await.  `new GeminiStreamingService()` is
\* outside the try block: without an API key the handler's promise rejects,
\* and the response is left open or answered 500 by the framework
BeginEstimate(c, r, frameworkEnds) ==
    IF ~c.apiKey
    THEN [ctl |-> [c EXCEPT !.pc = "rejected"],
          res |-> IF frameworkEnds THEN [ResEnd(r) EXCEPT !.status = 500] ELSE r,
          gen |-> IdleGen]
    ELSE IF ~c.bodyValid
    THEN [ctl |-> [c EXCEPT !.pc = "done"], res |-> ValidationFailure(r), gen |-> IdleGen]
    ELSE [ctl |-> [c EXCEPT !.pc = "loop"], res |-> StreamWrite(r, "stream_start"),
          gen |-> NewGen]

\* applyLineItemChangesWithProgress after the last batch, and the handler's
\* completion event
FinishProgress(r) ==
    Finally(WriteAll(r, <<"progress", "complete">>))

\* streamEstimateProgress up to its first await
BeginProgress(c, r) ==
    IF ~c.bodyValid
    THEN [ctl |-> [c EXCEPT !.pc = "done"], res |-> ValidationFailure(r), gen |-> IdleGen]
    ELSE IF ~c.hasUser
    THEN [ctl |-> [c EXCEPT !.pc = "done"], res |-> Finally(StreamWrite(r, "error")),
          gen |-> IdleGen]
    ELSE IF c.total = 0
    THEN [ctl |-> [c EXCEPT !.pc = "done"],
          res |-> FinishProgress(StreamWrite(r, "progress")), gen |-> IdleGen]
    ELSE [ctl |-> [c EXCEPT !.pc = "batch"], res |-> StreamWrite(r, "progress"),
          gen |-> IdleGen]

\* the request reaches the handler behind httpStreamingMiddleware
CtlBegin ==
    /\ ctl.pc = "request"
    /\ \E frameworkEnds \in BOOLEAN :
         LET r == httpStreamingMiddleware("u1")
             out == IF ctl.handler = "estimate"
                    THEN BeginEstimate(ctl, r, frameworkEnds) ELSE BeginProgress(ctl, r)
         IN /\ ctl' = out.ctl
            /\ res' = <<out.res>>
            /\ gen' = out.gen
    /\ UNCHANGED <<connections, userConnectionCounts, applyVars>>

\* the `for await` body for what the generator did last: forward a new
\* event, leave the loop on return, run catch and finally on throw
Consume(c, r, g, g1) ==
    LET yieldedNew == Len(g1.yielded) > Len(g.yielded)
        ev == Last(g1.yielded)
        r1 == IF yieldedNew THEN StreamWrite(r, ev.type) ELSE r
        c1 == IF yieldedNew /\ ev.type = "complete"
              THEN [c EXCEPT !.completeData = TRUE] ELSE c
    IN IF g1.pc = "threw"
       THEN [ctl |-> [c1 EXCEPT !.pc = "done"], res |-> Finally(StreamWrite(r1, "error"))]
       ELSE IF g1.pc = "returned"
       THEN [ctl |-> [c1 EXCEPT !.pc = "after_loop"], res |-> r1]
       ELSE [ctl |-> c1, res |-> r1]

GenStep(g1) ==
    LET out == Consume(ctl, res[1], gen, g1)
    IN /\ gen' = g1
       /\ ctl' = out.ctl
       /\ res' = [res EXCEPT ![1] = out.res]
       /\ UNCHANGED <<connections, userConnectionCounts, applyVars>>

\* the loop calls next() on the suspended generator
CtlPull ==
    /\ ctl.pc = "loop"
    /\ gen.pc \in YieldPoints
    /\ \E repairOk \in BOOLEAN, extractOk \in BOOLEAN :
          GenStep(GenNextOp(gen, repairOk, extractOk))

\* this.ai.models.generateContentStream(...) resolves
ProviderResolve ==
    /\ ctl.pc = "loop"
    /\ gen.pc = "await_provider"
    /\ GenStep(GenProviderResolved(gen))

\* this.ai.models.generateContentStream(...) rejects
ProviderReject ==
    /\ ctl.pc = "loop"
    /\ gen.pc = "await_provider"
    /\ \E m \in ProviderErrors : GenStep(GenCatch(gen, m))

\* the response stream delivers a chunk
ProviderChunk ==
    /\ ctl.pc = "loop"
    /\ gen.pc = "await_chunk"
    /\ Len(gen.sent) < MaxChunks
    /\ \E t \in ChunkTexts : GenStep(GenChunk(gen, t))

\* the response stream ends
ProviderEnd ==
    /\ ctl.pc = "loop"
    /\ gen.pc = "await_chunk"
    /\ GenStep(GenStreamEnd(gen))

\* the response stream throws
ProviderThrow ==
    /\ ctl.pc = "loop"
    /\ gen.pc = "await_chunk"
    /\ \E m \in ProviderErrors : GenStep(GenCatch(gen, m))

\* after the loop: no project for an anonymous request, otherwise wait for
\* createProjectFromStream
CtlAfterLoop ==
    /\ ctl.pc = "after_loop"
    /\ IF ctl.completeData /\ ctl.hasUser
       THEN /\ ctl' = [ctl EXCEPT !.pc = "creating"]
            /\ res' = res
       ELSE /\ ctl' = [ctl EXCEPT !.pc = "done"]
            /\ res' = [res EXCEPT ![1] =
                          Finally(WriteAll(@, IF ctl.completeData
                                              THEN <<"info", "stream_complete">>
                                              ELSE <<"stream_complete">>))]
    /\ UNCHANGED <<connections, userConnectionCounts, gen, applyVars>>

\* createProjectFromStream settles
CtlProjectSettled(created) ==
    /\ ctl.pc = "creating"
    /\ ctl' = [ctl EXCEPT !.pc = "done"]
    /\ res' = [res EXCEPT ![1] =
                  Finally(WriteAll(@, <<IF created THEN "project_created" ELSE "warning",
                                        "stream_complete">>))]
    /\ UNCHANGED <<connections, userConnectionCounts, gen, applyVars>>

\* one batch of applyLineItemChangesWithProgress settles
CtlBatchDone ==
    /\ ctl.pc = "batch"
    /\ LET processed == IF ctl.processed + BatchSize < ctl.total
                        THEN ctl.processed + BatchSize ELSE ctl.total
           r1 == StreamWrite(res[1], "progress")
       IN IF processed < ctl.total
          THEN /\ ctl' = [ctl EXCEPT !.processed = processed]
               /\ res' = [res EXCEPT ![1] = r1]
          ELSE /\ ctl' = [ctl EXCEPT !.processed = processed, !.pc = "done"]
               /\ res' = [res EXCEPT ![1] = FinishProgress(r1)]
    /\ UNCHANGED <<connections, userConnectionCounts, gen, applyVars>>

NextCtl ==
    \/ CtlBegin
    \/ CtlPull
    \/ ProviderResolve
    \/ ProviderReject
    \/ ProviderChunk
    \/ ProviderEnd
    \/ ProviderThrow
    \/ CtlAfterLoop
    \/ \E created \in BOOLEAN : CtlProjectSettled(created)
    \/ CtlBatchDone
    \/ \E h \in DOMAIN res : ClientClose(h)
    \/ \E h \in DOMAIN res : HeartbeatTick(h)

SpecCtl == InitCtl /\ [][NextCtl]_vars


(***************************************************************************)
(* Action mini-language parser: parseInstructionAttributes, processValue   *)
(***************************************************************************)
Digits == <<"0", "1", "2", "3", "4", "5", "6", "7", "8", "9">>

IsDigit(c) == \E i \in 1..10 : Digits[i] = c

DigitValue(c) == (CHOOSE i \in 1..10 : Digits[i] = c) - 1

\* String.prototype.trim
RECURSIVE TrimStart(_)
TrimStart(s) ==
    IF s /= <<>> /\ Head(s) = " " THEN TrimStart(Tail(s)) ELSE s

RECURSIVE TrimEnd(_)
TrimEnd(s) ==
    IF s /= <<>> /\ s[Len(s)] = " " THEN TrimEnd(SubSeq(s, 1, Len(s) - 1)) ELSE s

Trim(s) == TrimEnd(TrimStart(s))

\* String.prototype.substring(from)
SubstringFrom(s, from) == SubSeq(s, from + 1, Len(s))

\* String.prototype.indexOf(c), 0-based, -1 when absent
IndexOf(s, c) ==
    IF \E i \in 1..Len(s) : s[i] = c
    THEN (CHOOSE i \in 1..Len(s) : s[i] = c /\ \A j \in 1..(i - 1) : s[j] /= c) - 1
    ELSE -1

\* the digits matched by (\d+) at the start of s
RECURSIVE LeadingDigits(_)
LeadingDigits(s) ==
    IF s /= <<>> /\ IsDigit(Head(s))
    THEN <<Head(s)>> \o LeadingDigits(Tail(s))
    ELSE <<>>

\* parseInt(digits, 10)
RECURSIVE ParseInt(_)
ParseInt(ds) ==
    IF ds = <<>> THEN 0
    ELSE 10 * ParseInt(SubSeq(ds, 1, Len(ds) - 1)) + DigitValue(ds[Len(ds)])

\* attribute values: string, number, boolean, and NaN from arithmetic
Str(s) == [t |-> "str", s |-> s, n |-> 0, b |-> FALSE]
Num(n) == [t |-> "num", s |-> <<>>, n |-> n, b |-> FALSE]
Bool(b) == [t |-> "bool", s |-> <<>>, n |-> 0, b |-> b]
NaN == [t |-> "nan", s |-> <<>>, n |-> 0, b |-> FALSE]

\* attribute and column names, as the strings the parser produces
Col ==
    [ id |-> <<"i", "d">>,
      description |-> <<"d", "e", "s", "c", "r", "i", "p", "t", "i", "o", "n">>,
      title |-> <<"t", "i", "t", "l", "e">>,
      quantity |-> <<"q", "u", "a", "n", "t", "i", "t", "y">>,
      unit_price |-> <<"u", "n", "i", "t", "_", "p", "r", "i", "c", "e">>,
      amount |-> <<"a", "m", "o", "u", "n", "t">>,
      cost_type |-> <<"c", "o", "s", "t", "_", "t", "y", "p", "e">>,
      unit_type |-> <<"u", "n", "i", "t", "_", "t", "y", "p", "e">>,
      status |-> <<"s", "t", "a", "t", "u", "s">>,
      parent |-> <<"p", "a", "r", "e", "n", "t">>,
      parent_id |-> <<"p", "a", "r", "e", "n", "t", "_", "i", "d">>,
      parent_item_id |-> <<"p", "a", "r", "e", "n", "t", "_", "i", "t", "e", "m", "_", "i", "d">>,
      is_sub_item |-> <<"i", "s", "_", "s", "u", "b", "_", "i", "t", "e", "m">>,
      data |-> <<"d", "a", "t", "a">>,
      project_id |-> <<"p", "r", "o", "j", "e", "c", "t", "_", "i", "d">>,
      currency |-> <<"c", "u", "r", "r", "e", "n", "c", "y">>,
      created_by |-> <<"c", "r", "e", "a", "t", "e", "d", "_", "b", "y">> ]

TextFields == {Col.cost_type, Col.unit_type, Col.status}

\* !isNaN(value) && value.trim() !== "" on the numerals of the instruction
\* alphabet: unsigned decimal integers
IsNumeric(s) == s /= <<>> /\ \A i \in 1..Len(s) : IsDigit(s[i])

IsQuoted(value) ==
    \/ StartsWith(value, <<"'">>) /\ value[Len(value)] = "'"
    \/ StartsWith(value, <<"\"">>) /\ value[Len(value)] = "\""

\* processValue(value, key)
processValue(value, key) ==
    IF value /= <<>> /\ IsQuoted(value)
    THEN \* substring(1, length - 1); substring(1, 0) is substring(0, 1)
         IF Len(value) = 1 THEN Str(value)
         ELSE Str(SubSeq(value, 2, Len(value) - 1))
    ELSE IF key \in TextFields THEN Str(value)
    ELSE IF IsNumeric(value) THEN Num(ParseInt(value))
    ELSE IF ToLowerCase(value) = <<"t", "r", "u", "e">> THEN Bool(TRUE)
    ELSE IF ToLowerCase(value) = <<"f", "a", "l", "s", "e">> THEN Bool(FALSE)
    ELSE Str(value)

ParserStart ==
    [ attributes |-> EmptyMap, currentKey |-> <<>>, currentValue |-> <<>>,
      inQuote |-> FALSE, quoteChar |-> "", parsingKey |-> TRUE ]

\* one iteration of the character loop
ParseChar(st, char) ==
    IF st.parsingKey
    THEN IF char = "="
         THEN [st EXCEPT !.parsingKey = FALSE, !.currentKey = Trim(@)]
         ELSE [st EXCEPT !.currentKey = Append(@, char)]
    ELSE IF ~st.inQuote /\ (char = "'" \/ char = "\"")
         THEN [st EXCEPT !.inQuote = TRUE, !.quoteChar = char]
    ELSE IF st.inQuote /\ char = st.quoteChar
         THEN [st EXCEPT !.inQuote = FALSE]
    ELSE IF ~st.inQuote /\ char = ","
         THEN [st EXCEPT
                 !.attributes = MapSet(@, st.currentKey,
                                       processValue(Trim(st.currentValue), st.currentKey)),
                 !.currentKey = <<>>, !.currentValue = <<>>, !.parsingKey = TRUE]
    ELSE [st EXCEPT !.currentValue = Append(@, char)]

\* the for loop; the parser state of each iteration is bound as one value
RECURSIVE ParseLoop(_, _, _)
ParseLoop(state, s, i) ==
    IF i > Len(s) THEN state
    ELSE CHOOSE r \in {ParseLoop(ParseChar(st, s[i]), s, i + 1) : st \in {state}} : TRUE

\* the text matched by /^ID:(\d+),?\s*/, or <<>> when there is no match
IdPrefix(s) ==
    LET ds == LeadingDigits(SubstringFrom(s, 3))
        afterDigits == SubstringFrom(s, 3 + Len(ds))
        afterComma == IF afterDigits /= <<>> /\ Head(afterDigits) = ","
                      THEN Tail(afterDigits) ELSE afterDigits
        rest == TrimStart(afterComma)
    IN IF StartsWith(s, <<"I", "D", ":">>) /\ ds /= <<>>
       THEN SubSeq(s, 1, Len(s) - Len(rest))
       ELSE <<>>

\* parseInstructionAttributes(instructionPart)
parseInstructionAttributes(instructionPart) ==
    LET prefix == IdPrefix(instructionPart)
        st0 == IF prefix /= <<>>
               THEN [ParserStart EXCEPT !.attributes =
                        MapSet(@, Col.id, Num(ParseInt(LeadingDigits(SubstringFrom(prefix, 3)))))]
               ELSE ParserStart
        st == ParseLoop(st0, SubstringFrom(instructionPart, Len(prefix)), 1)
    IN IF st.currentKey /= <<>>
       THEN MapSet(st.attributes, st.currentKey,
                   processValue(Trim(st.currentValue), st.currentKey))
       ELSE st.attributes


(***************************************************************************)
(* Instructions offered to the mutation engine                             *)
(***************************************************************************)
\* the instruction texts of the batches
Ins ==
    [
      \* + description='Work', quantity=2, unit_price=3
      AddWork |->
        <<"+", " ", "d", "e", "s", "c", "r", "i", "p", "t", "i", "o", "n", "=", "'", "W", "o", "r", "k", "'", ",", " ", "q", "u", "a", "n", "t", "i", "t", "y", "=", "2", ",", " ", "u", "n", "i", "t", "_", "p", "r", "i", "c", "e", "=", "3">>,
      \* + ID:1, cost_type=equipment
      UpdateCostType |->
        <<"+", " ", "I", "D", ":", "1", ",", " ", "c", "o", "s", "t", "_", "t", "y", "p", "e", "=", "e", "q", "u", "i", "p", "m", "e", "n", "t">>,
      \* - ID:1
      DeleteOne |->
        <<"-", " ", "I", "D", ":", "1">>,
      \* - ID:2
      DeleteAbsent |->
        <<"-", " ", "I", "D", ":", "2">>,
      \* + description='Nail', parent='Work'
      AddUnderWork |->
        <<"+", " ", "d", "e", "s", "c", "r", "i", "p", "t", "i", "o", "n", "=", "'", "N", "a", "i", "l", "'", ",", " ", "p", "a", "r", "e", "n", "t", "=", "'", "W", "o", "r", "k", "'">>,
      \*  
      Blank |->
        <<" ">>,
      \* remove item 1
      UnknownFormat |->
        <<"r", "e", "m", "o", "v", "e", " ", "i", "t", "e", "m", " ", "1">>,
      \* + quantity=4
      NoDescription |->
        <<"+", " ", "q", "u", "a", "n", "t", "i", "t", "y", "=", "4">>,
      \* + ID:x, quantity=1
      BadUpdateId |->
        <<"+", " ", "I", "D", ":", "x", ",", " ", "q", "u", "a", "n", "t", "i", "t", "y", "=", "1">>,
      \* - ID:
      BadDeleteId |->
        <<"-", " ", "I", "D", ":">>,
      \* + description=123
      NumberDescription |->
        <<"+", " ", "d", "e", "s", "c", "r", "i", "p", "t", "i", "o", "n", "=", "1", "2", "3">>,
      \* + ID:1, description=true
      BooleanDescription |->
        <<"+", " ", "I", "D", ":", "1", ",", " ", "d", "e", "s", "c", "r", "i", "p", "t", "i", "o", "n", "=", "t", "r", "u", "e">>
    ]

WellFormed == {Ins.AddWork, Ins.UpdateCostType, Ins.DeleteOne, Ins.DeleteAbsent, Ins.AddUnderWork}

Malformed ==
    {Ins.UnknownFormat, Ins.NoDescription, Ins.BadUpdateId, Ins.BadDeleteId,
     Ins.NumberDescription, Ins.BooleanDescription}

Instructions == WellFormed \cup Malformed \cup {Ins.Blank}

(***************************************************************************)
(* Mutation engine: applyLineItemChanges over the estimate_items table     *)
(***************************************************************************)
Undefined == [t |-> "undef", s |-> <<>>, n |-> 0, b |-> FALSE]
Null == [t |-> "null", s |-> <<>>, n |-> 0, b |-> FALSE]
\* the default `data` object { ai_generated, generation_timestamp }
AiGenerated == [t |-> "obj", s |-> <<>>, n |-> 0, b |-> TRUE]

\* attributes.key of a parsed attribute object
Attr(attributes, key) == GetOr(attributes, key, Undefined)

\* JavaScript truthiness
Truthy(v) ==
    CASE v.t = "str" -> v.s /= <<>>
      [] v.t = "num" -> v.n /= 0
      [] v.t = "bool" -> v.b
      [] v.t = "obj" -> TRUE
      [] OTHER -> FALSE

\* a || b
OrElse(a, b) == IF Truthy(a) THEN a ELSE b

\* ToNumber, as applied by the * operator
ToNumber(v) ==
    CASE v.t = "num" -> v
      [] v.t = "bool" -> Num(IF v.b THEN 1 ELSE 0)
      [] v.t = "null" -> Num(0)
      [] v.t = "str" -> IF v.s = <<>> THEN Num(0)
                        ELSE IF IsNumeric(v.s) THEN Num(ParseInt(v.s))
                        ELSE NaN
      [] OTHER -> NaN

Times_Sum(a, b) == Num(ToNumber(a).n + ToNumber(b).n)

\* a * b
Times(a, b) ==
    IF ToNumber(a).t = "nan" \/ ToNumber(b).t = "nan" THEN NaN
    ELSE Num(ToNumber(a).n * ToNumber(b).n)

\* the keyword cascade on description.toLowerCase()
InferCostType(lowered) ==
    LET description == lowered
    IN IF Includes(description, <<"a", "d", "m", "i", "n">>) THEN <<"a", "d", "m", "i", "n">>
       ELSE IF Includes(description, <<"e", "q", "u", "i", "p", "m", "e", "n", "t">>)
          \/ Includes(description, <<"t", "o", "o", "l">>)
          \/ Includes(description, <<"m", "a", "c", "h", "i", "n", "e">>)
          \/ Includes(description, <<"d", "e", "v", "i", "c", "e">>) THEN <<"e", "q", "u", "i", "p", "m", "e", "n", "t">>
       ELSE IF Includes(description, <<"l", "a", "b", "o", "r">>)
          \/ Includes(description, <<"w", "o", "r", "k">>)
          \/ Includes(description, <<"s", "e", "r", "v", "i", "c", "e">>)
          \/ Includes(description, <<"h", "o", "u", "r">>)
          \/ Includes(description, <<"i", "n", "s", "t", "a", "l", "l", "a", "t", "i", "o", "n">>) THEN <<"l", "a", "b", "o", "r">>
       ELSE IF Includes(description, <<"m", "a", "t", "e", "r", "i", "a", "l">>)
          \/ Includes(description, <<"s", "u", "p", "p", "l", "y">>)
          \/ Includes(description, <<"p", "a", "r", "t">>)
          \/ Includes(description, <<"c", "o", "m", "p", "o", "n", "e", "n", "t">>) THEN <<"m", "a", "t", "e", "r", "i", "a", "l">>
       ELSE IF Includes(description, <<"o", "v", "e", "r", "h", "e", "a", "d">>)
          \/ Includes(description, <<"i", "n", "d", "i", "r", "e", "c", "t">>)
          \/ Includes(description, <<"a", "d", "m", "i", "n", "i", "s", "t", "r", "a", "t", "i", "v", "e">>) THEN <<"o", "v", "e", "r", "h", "e", "a", "d">>
       ELSE <<"o", "t", "h", "e", "r">>

\* attributes.description.toLowerCase() is a TypeError unless it is a string
LowerCaseThrows(v) == v.t /= "str"

\* rows of estimate_items: id -> column -> value
ProjectId == 1
OtherProjectId == 2
UserId == <<"u", "s", "e", "r", "-", "1">>
Currency == <<"U", "S", "D">>

InProject(rows, id, projectId) ==
    id \in DOMAIN rows /\ Attr(rows[id], Col.project_id) = Num(projectId)

\* parent_item_id REFERENCES estimate_items(id)
ParentViolation(rows, data) ==
    /\ Col.parent_item_id \in DOMAIN data
    /\ data[Col.parent_item_id].t /= "null"
    /\ ~(data[Col.parent_item_id].t = "num" /\ data[Col.parent_item_id].n \in DOMAIN rows)

\* the columns of estimate_items: CREATE TABLE, and cost_type, which the add
\* branch inserts
TableColumns ==
    {Col.id, Col.project_id, Col.title, Col.description, Col.quantity, Col.unit_price,
     Col.unit_type, Col.amount, Col.currency, Col.status, Col.parent_item_id,
     Col.created_by, Col.is_sub_item, Col.data, Col.cost_type,
     <<"t", "o", "t", "a", "l", "_", "a", "m", "o", "u", "n", "t">>,
     <<"c", "r", "e", "a", "t", "e", "d", "_", "a", "t">>,
     <<"u", "p", "d", "a", "t", "e", "d", "_", "a", "t">>}

\* the request names a column the table does not have
UnknownColumn(data) == ~(DOMAIN data \subseteq TableColumns)

Merge(row, data) ==
    [k \in (DOMAIN row) \cup (DOMAIN data) |-> IF k \in DOMAIN data THEN data[k] ELSE row[k]]

\* .update(updateData).eq("id", itemId).eq("project_id", projectId)
StoreUpdate(rows, itemId, projectId, updateData, fault) ==
    IF \/ fault
       \/ UnknownColumn(updateData)
       \/ (InProject(rows, itemId, projectId) /\ ParentViolation(rows, updateData))
    THEN [error |-> TRUE, rows |-> rows]
    ELSE [error |-> FALSE,
          rows |-> IF InProject(rows, itemId, projectId)
                   THEN [rows EXCEPT ![itemId] = Merge(@, updateData)]
                   ELSE rows]

\* .delete().eq("id", itemId).eq("project_id", projectId); children are kept
\* with parent_item_id set to null (ON DELETE SET NULL)
StoreDelete(rows, itemId, projectId, fault) ==
    IF fault THEN [error |-> TRUE, rows |-> rows]
    ELSE [error |-> FALSE,
          rows |-> IF InProject(rows, itemId, projectId)
                   THEN [id \in (DOMAIN rows) \ {itemId} |->
                            IF Attr(rows[id], Col.parent_item_id) = Num(itemId)
                            THEN MapSet(rows[id], Col.parent_item_id, Null)
                            ELSE rows[id]]
                   ELSE rows]

\* .insert(itemData).select(); id is GENERATED ALWAYS AS IDENTITY
StoreInsert(rows, newId, itemData, fault) ==
    IF fault \/ UnknownColumn(itemData) \/ ParentViolation(rows, itemData)
    THEN [error |-> TRUE, rows |-> rows]
    ELSE [error |-> FALSE, rows |-> MapSet(rows, newId, itemData)]

ParentCandidates_None(rows, projectId, parent) == {}

\* .select("id").eq("project_id", projectId).eq("description", parent)
ParentCandidates(rows, projectId, parent) ==
    {id \in DOMAIN rows : InProject(rows, id, projectId) /\ Attr(rows[id], Col.description) = parent}


NewSummary == [itemsAdded |-> 0, itemsUpdated |-> 0, itemsDeleted |-> 0, errors |-> <<>>]

\* summary.errors.push(...): the message kind and the position of the instruction
PushError(summary, kind, i) ==
    [summary EXCEPT !.errors = Append(@, [kind |-> kind, instruction |-> i])]

Outcome(rows, nid, summary, threw) ==
    [rows |-> rows, nextId |-> nid, summary |-> summary, threw |-> threw]

\* the updateData key an attribute key is copied to
UpdateKey(key) == IF key = Col.parent_id THEN Col.parent_item_id ELSE key

\* updateData built from Object.entries(attributes); an instruction naming
\* both parent_id and parent_item_id keeps parent_id here
BuildUpdateData(attributes) ==
    [c \in {UpdateKey(key) : key \in DOMAIN attributes} |->
        IF c = Col.parent_item_id /\ Col.parent_id \in DOMAIN attributes
        THEN attributes[Col.parent_id]
        ELSE attributes[c]]

\* update branch after the id match: amount, updateData, inference, store call
UpdateItem(rows, nid, summary, i, fault, itemId, parsed) ==
    LET attributes ==
            IF /\ Truthy(Attr(parsed, Col.quantity))
               /\ Truthy(Attr(parsed, Col.unit_price))
               /\ ~Truthy(Attr(parsed, Col.amount))
            THEN MapSet(parsed, Col.amount,
                        Times(parsed[Col.quantity], parsed[Col.unit_price]))
            ELSE parsed
        infer == Truthy(Attr(attributes, Col.description)) /\ ~Truthy(Attr(attributes, Col.cost_type))
        data0 == BuildUpdateData(attributes)
        data1 == IF infer
                 THEN MapSet(data0, Col.cost_type,
                             Str(InferCostType(ToLowerCase(attributes[Col.description].s))))
                 ELSE data0
        updateData == IF Truthy(Attr(data1, Col.description)) /\ ~Truthy(Attr(data1, Col.title))
                      THEN MapSet(data1, Col.title, data1[Col.description])
                      ELSE data1
        result == StoreUpdate(rows, itemId, ProjectId, updateData, fault)
    IN IF infer /\ LowerCaseThrows(attributes[Col.description])
       THEN Outcome(rows, nid, summary, TRUE)
       ELSE IF result.error
       THEN Outcome(rows, nid, PushError(summary, "Error updating item", i), FALSE)
       ELSE Outcome(result.rows, nid, [summary EXCEPT !.itemsUpdated = @ + 1], FALSE)

\* branch `+ ID:<n>, ...`
UpdateBranch(rows, nid, summary, trimmedInstruction, i, fault) ==
    LET idMatch == LeadingDigits(SubstringFrom(trimmedInstruction, 5))
        attributesStr ==
            Trim(SubstringFrom(trimmedInstruction, IndexOf(trimmedInstruction, ",") + 1))
    IN IF idMatch = <<>>
       THEN Outcome(rows, nid, PushError(summary, "Invalid update instruction", i), FALSE)
       ELSE UpdateItem(rows, nid, summary, i, fault, ParseInt(idMatch),
                       parseInstructionAttributes(attributesStr))

\* branch `- ID:<n>`
DeleteBranch(rows, nid, summary, trimmedInstruction, i, fault) ==
    LET idMatch == LeadingDigits(SubstringFrom(trimmedInstruction, 5))
        itemId == ParseInt(idMatch)
        result == StoreDelete(rows, itemId, ProjectId, fault)
    IN IF idMatch = <<>>
       THEN Outcome(rows, nid, PushError(summary, "Invalid delete instruction", i), FALSE)
       ELSE IF result.error
       THEN Outcome(rows, nid, PushError(summary, "Error deleting item", i), FALSE)
       ELSE Outcome(result.rows, nid, [summary EXCEPT !.itemsDeleted = @ + 1], FALSE)

\* add branch after parsing; parentItems is the result of the parent lookup ({}
\* when the lookup failed or matched nothing, else the one row returned under
\* limit(1))
AddItem(rows, nid, summary, i, fault, parentItems, parsed) ==
    LET quantity == OrElse(Attr(parsed, Col.quantity), Num(1))
        unit_price == OrElse(Attr(parsed, Col.unit_price), Num(0))
        amount == IF ~Truthy(Attr(parsed, Col.amount))
                  THEN Times(quantity, unit_price)
                  ELSE parsed[Col.amount]
        description == Attr(parsed, Col.description)
        infer == ~Truthy(Attr(parsed, Col.cost_type)) /\ Truthy(description)
        costType == IF infer
                    THEN Str(InferCostType(ToLowerCase(description.s)))
                    ELSE Attr(parsed, Col.cost_type)
        base ==
            (Col.project_id :> Num(ProjectId)) @@
            (Col.description :> description) @@
            (Col.title :> OrElse(Attr(parsed, Col.title), description)) @@
            (Col.quantity :> quantity) @@
            (Col.unit_price :> unit_price) @@
            (Col.amount :> amount) @@
            (Col.currency :> Str(Currency)) @@
            (Col.created_by :> Str(UserId)) @@
            (Col.unit_type :> OrElse(Attr(parsed, Col.unit_type), Str(<<"u", "n", "i", "t">>))) @@
            (Col.cost_type :> OrElse(costType, Str(<<"m", "a", "t", "e", "r", "i", "a", "l">>))) @@
            (Col.is_sub_item :> OrElse(Attr(parsed, Col.is_sub_item), Bool(FALSE))) @@
            (Col.status :> OrElse(Attr(parsed, Col.status), Str(<<"a", "c", "t", "i", "v", "e">>))) @@
            (Col.data :> OrElse(Attr(parsed, Col.data), AiGenerated))
        asChild(parentId) ==
            MapSet(MapSet(base, Col.parent_item_id, parentId), Col.is_sub_item, Bool(TRUE))
        byName == Truthy(Attr(parsed, Col.parent))
        unresolved == byName /\ parentItems = {}
        itemData ==
            IF byName
            THEN IF unresolved THEN base
                 ELSE asChild(Num(CHOOSE id \in parentItems : TRUE))
            ELSE IF Truthy(Attr(parsed, Col.parent_id)) THEN asChild(parsed[Col.parent_id])
            ELSE base
        summary1 == IF unresolved
                    THEN PushError(summary, "Could not find parent item", i)
                    ELSE summary
        result == StoreInsert(rows, nid, itemData, fault)
    IN IF ~Truthy(description)
       THEN Outcome(rows, nid, PushError(summary, "Missing description in add instruction", i), FALSE)
       ELSE IF infer /\ LowerCaseThrows(description)
       THEN Outcome(rows, nid, summary, TRUE)
       ELSE IF result.error
       THEN Outcome(rows, nid, PushError(summary1, "Error adding new item", i), FALSE)
       ELSE Outcome(result.rows, nid + 1, [summary1 EXCEPT !.itemsAdded = @ + 1], FALSE)

\* branch `+ ...`
AddBranch(rows, nid, summary, trimmedInstruction, i, fault, parentItems) ==
    AddItem(rows, nid, summary, i, fault, parentItems,
            parseInstructionAttributes(Trim(SubstringFrom(trimmedInstruction, 1))))

\* the branch the for-loop body takes for one instruction
Branch(instruction) ==
    LET trimmedInstruction == Trim(instruction)
    IN IF trimmedInstruction = <<>> THEN "skip"
       ELSE IF StartsWith(trimmedInstruction, <<"+", " ", "I", "D", ":">>) THEN "update"
       ELSE IF StartsWith(trimmedInstruction, <<"-", " ", "I", "D", ":">>) THEN "delete"
       ELSE IF StartsWith(trimmedInstruction, <<"+">>) THEN "add"
       ELSE "unknown"

\* the parent description an add instruction looks up, Undefined when none
ParentOf(instruction) ==
    IF Branch(instruction) = "add"
    THEN Attr(parseInstructionAttributes(Trim(SubstringFrom(Trim(instruction), 1))), Col.parent)
    ELSE Undefined

\* one iteration of the for-loop of applyLineItemChanges
ApplyOne(rows, nid, summary, instruction, i, fault, parentItems) ==
    LET trimmedInstruction == Trim(instruction)
        branch == Branch(instruction)
    IN CASE branch = "skip" -> Outcome(rows, nid, summary, FALSE)
         [] branch = "update" -> UpdateBranch(rows, nid, summary, trimmedInstruction, i, fault)
         [] branch = "delete" -> DeleteBranch(rows, nid, summary, trimmedInstruction, i, fault)
         [] branch = "add" ->
                AddBranch(rows, nid, summary, trimmedInstruction, i, fault, parentItems)
         [] OTHER ->
                Outcome(rows, nid, PushError(summary, "Unknown instruction format", i), FALSE)


(***************************************************************************)
(* Batches applied to a project                                            *)
(***************************************************************************)
Batches == UNION {[1..n -> Instructions] : n \in 0..MaxBatch}

\* a line item as the add branch stores it
Item(projectId, description) ==
    (Col.project_id :> Num(projectId)) @@
    (Col.description :> Str(description)) @@
    (Col.title :> Str(description)) @@
    (Col.quantity :> Num(1)) @@
    (Col.unit_price :> Num(5)) @@
    (Col.amount :> Num(5)) @@
    (Col.currency :> Str(Currency)) @@
    (Col.created_by :> Str(UserId)) @@
    (Col.unit_type :> Str(<<"u", "n", "i", "t">>)) @@
    (Col.cost_type :> Str(<<"l", "a", "b", "o", "r">>)) @@
    (Col.is_sub_item :> Bool(FALSE)) @@
    (Col.status :> Str(<<"a", "c", "t", "i", "v", "e">>)) @@
    (Col.data :> AiGenerated)

\* item 1 belongs to the project of the batch, item 2 to another project
SeededRows ==
    (1 :> Item(ProjectId, <<"W", "o", "r", "k">>)) @@
    (2 :> Item(OtherProjectId, <<"R", "o", "o", "f">>))

InitialRows == {EmptyMap, SeededRows}

InitApply ==
    /\ connections = EmptyMap
    /\ userConnectionCounts = EmptyMap
    /\ res = <<>>
    /\ ctl = IdleCtl
    /\ gen = IdleGen
    /\ store \in InitialRows
    /\ nextId = 3
    /\ apply = IdleApply
    /\ projects = EmptyMap

\* applyLineItemChanges(projectId, userId, instructions) is called
ApplyStart ==
    /\ apply.pc = "idle"
    /\ \E instructions \in Batches :
          apply' = [pc |-> "running", instructions |-> instructions, i |-> 1,
                    summary |-> NewSummary, faults |-> 0]
    /\ UNCHANGED <<cmVars, ctlVars, store, nextId, projects>>

\* the rows the parent lookup of the current instruction may return
ParentLookups(rows, instruction, lookupFault) ==
    LET parent == ParentOf(instruction)
        found == IF Truthy(parent) THEN ParentCandidates(rows, ProjectId, parent) ELSE {}
    IN IF found = {} \/ lookupFault THEN {{}} ELSE {{id} : id \in found}

\* one iteration of the loop, including its store operations; fault and
\* lookupFault are failures the store reports for reasons outside the table
ApplyInstruction(fault, lookupFault) ==
    /\ apply.pc = "running"
    /\ apply.i <= Len(apply.instructions)
    /\ LET instruction == apply.instructions[apply.i]
           injected == (IF fault THEN 1 ELSE 0) + (IF lookupFault THEN 1 ELSE 0)
       IN /\ apply.faults + injected <= MaxFaults
          /\ lookupFault =>
                ParentLookups(store, instruction, TRUE) /= ParentLookups(store, instruction, FALSE)
          /\ \E parentItems \in ParentLookups(store, instruction, lookupFault) :
             \E out \in {ApplyOne(store, nextId, apply.summary, instruction,
                                  apply.i, fault, parentItems)} :
                /\ fault => out /= ApplyOne(store, nextId, apply.summary, instruction,
                                            apply.i, FALSE, parentItems)
                /\ store' = out.rows
                /\ nextId' = out.nextId
                /\ apply' = IF out.threw
                            THEN [apply EXCEPT !.pc = "threw"]
                            ELSE [apply EXCEPT !.i = @ + 1, !.summary = out.summary,
                                               !.faults = @ + injected]
    /\ UNCHANGED <<cmVars, ctlVars, projects>>

\* return summary
ApplyReturn ==
    /\ apply.pc = "running"
    /\ apply.i > Len(apply.instructions)
    /\ apply' = [apply EXCEPT !.pc = "returned"]
    /\ UNCHANGED <<cmVars, ctlVars, store, nextId, projects>>

NextApply ==
    \/ ApplyStart
    \/ \E fault \in BOOLEAN, lookupFault \in BOOLEAN : ApplyInstruction(fault, lookupFault)
    \/ ApplyReturn

SpecApply == InitApply /\ [][NextApply]_vars


(***************************************************************************)
(* Single instructions applied to a project                                *)
(***************************************************************************)
\* further instruction texts, applied one per call
One ==
    [
      \* + ID:1, description='Tool'
      UpdateDescription |->
        <<"+", " ", "I", "D", ":", "1", ",", " ", "d", "e", "s", "c", "r", "i", "p", "t", "i", "o", "n", "=", "'", "T", "o", "o", "l", "'">>,
      \* + ID:1, quantity=2, unit_price=3
      UpdateQuantityPrice |->
        <<"+", " ", "I", "D", ":", "1", ",", " ", "q", "u", "a", "n", "t", "i", "t", "y", "=", "2", ",", " ", "u", "n", "i", "t", "_", "p", "r", "i", "c", "e", "=", "3">>,
      \* + description='Pipe', quantity=4
      AddQuantityOnly |->
        <<"+", " ", "d", "e", "s", "c", "r", "i", "p", "t", "i", "o", "n", "=", "'", "P", "i", "p", "e", "'", ",", " ", "q", "u", "a", "n", "t", "i", "t", "y", "=", "4">>,
      \* + description='Pipe', unit_price=7
      AddPriceOnly |->
        <<"+", " ", "d", "e", "s", "c", "r", "i", "p", "t", "i", "o", "n", "=", "'", "P", "i", "p", "e", "'", ",", " ", "u", "n", "i", "t", "_", "p", "r", "i", "c", "e", "=", "7">>,
      \* + description='Pipe', quantity=0, unit_price=7
      AddZeroQuantity |->
        <<"+", " ", "d", "e", "s", "c", "r", "i", "p", "t", "i", "o", "n", "=", "'", "P", "i", "p", "e", "'", ",", " ", "q", "u", "a", "n", "t", "i", "t", "y", "=", "0", ",", " ", "u", "n", "i", "t", "_", "p", "r", "i", "c", "e", "=", "7">>,
      \* + description='Pipe', quantity=2, unit_price=3, amount=0
      AddZeroAmount |->
        <<"+", " ", "d", "e", "s", "c", "r", "i", "p", "t", "i", "o", "n", "=", "'", "P", "i", "p", "e", "'", ",", " ", "q", "u", "a", "n", "t", "i", "t", "y", "=", "2", ",", " ", "u", "n", "i", "t", "_", "p", "r", "i", "c", "e", "=", "3", ",", " ", "a", "m", "o", "u", "n", "t", "=", "0">>,
      \* + ID:1, color=red
      UpdateUnknownKey |->
        <<"+", " ", "I", "D", ":", "1", ",", " ", "c", "o", "l", "o", "r", "=", "r", "e", "d">>,
      \* + description='Pipe', quantity=2, unit_price=3, amount=9
      AddOwnAmount |->
        <<"+", " ", "d", "e", "s", "c", "r", "i", "p", "t", "i", "o", "n", "=", "'", "P", "i", "p", "e", "'", ",", " ", "q", "u", "a", "n", "t", "i", "t", "y", "=", "2", ",", " ", "u", "n", "i", "t", "_", "p", "r", "i", "c", "e", "=", "3", ",", " ", "a", "m", "o", "u", "n", "t", "=", "9">>
    ]

Singles == {<<ins>> : ins \in Instructions \cup {One[n] : n \in DOMAIN One}}

\* applyLineItemChanges(projectId, userId, [instruction]) is called
ApplyStartOne ==
    /\ apply.pc = "idle"
    /\ \E instructions \in Singles :
          apply' = [pc |-> "running", instructions |-> instructions, i |-> 1,
                    summary |-> NewSummary, faults |-> 0]
    /\ UNCHANGED <<cmVars, ctlVars, store, nextId, projects>>

NextApplyOne ==
    \/ ApplyStartOne
    \/ \E fault \in BOOLEAN, lookupFault \in BOOLEAN : ApplyInstruction(fault, lookupFault)
    \/ ApplyReturn

SpecApplyOne == InitApply /\ [][NextApplyOne]_vars


(***************************************************************************)
(* Streamed progress path: applyLineItemChangesWithProgress                *)
(***************************************************************************)
\* instruction texts with the ROW prefix
Row ==
    [
      \* + ROW:1, quantity=2
      Update |->
        <<"+", " ", "R", "O", "W", ":", "1", ",", " ", "q", "u", "a", "n", "t", "i", "t", "y", "=", "2">>,
      \* - ROW:1
      Delete |->
        <<"-", " ", "R", "O", "W", ":", "1">>
    ]

\* applySingleInstruction(projectId, userId, instruction, currency).action
applySingleInstruction(instruction) ==
    LET trimmedInstruction == Trim(instruction)
    IN IF StartsWith(trimmedInstruction, <<"+", " ", "R", "O", "W", ":">>) THEN "update"
       ELSE IF StartsWith(trimmedInstruction, <<"-", " ", "R", "O", "W", ":">>) THEN "delete"
       ELSE IF StartsWith(trimmedInstruction, <<"+">>) THEN "create"
       ELSE "unknown"

ProgressInstructions ==
    {Ins.AddWork, Ins.UpdateCostType, Ins.DeleteOne, Ins.UnknownFormat, Row.Update, Row.Delete}

\* short requests, and one request longer than a batch
ProgressRequests ==
    UNION {[1..n -> ProgressInstructions] : n \in 0..MaxProgress}
    \cup {[j \in 1..(BatchSize + 1) |-> IF j = BatchSize + 1 THEN Ins.DeleteOne ELSE Ins.AddWork]}

NewActionSummary == [created |-> 0, updated |-> 0, deleted |-> 0, errors |-> <<>>]

\* progressCallback({stage, processed, ...})
Progress(a, stage, processed) ==
    [a EXCEPT !.progress = Append(@, [stage |-> stage, processed |-> processed])]

Min(a, b) == IF a < b THEN a ELSE b

\* the function is called: start progress, then the first batch or completion
ProgressStart ==
    /\ apply.pc = "idle"
    /\ \E instructions \in ProgressRequests :
          LET a == Progress([pc |-> "batch", instructions |-> instructions, i |-> 0,
                             tasks |-> <<>>, processed |-> 0,
                             actionSummary |-> NewActionSummary, progress |-> <<>>],
                            "start", 0)
          IN apply' = IF Len(instructions) = 0
                      THEN [Progress(a, "complete", 0) EXCEPT !.pc = "returned"]
                      ELSE a
    /\ UNCHANGED <<cmVars, ctlVars, store, nextId, projects>>

\* batch.map(async ...): every callback of the batch runs up to its await, so
\* applySingleInstruction has returned for each and every task is pending
BatchLaunch ==
    /\ apply.pc = "batch"
    /\ LET end == Min(apply.i + BatchSize, Len(apply.instructions))
       IN apply' = [apply EXCEPT
                      !.pc = "awaiting",
                      !.tasks = [j \in 1..(end - apply.i) |->
                                   [instruction |-> apply.i + j,
                                    action |-> applySingleInstruction(
                                                   apply.instructions[apply.i + j]),
                                    settled |-> FALSE]]]
    /\ UNCHANGED <<cmVars, ctlVars, store, nextId, projects>>

\* the callbacks resume in the order their awaits were queued and return
\* { success: true, result }
TaskSettle ==
    /\ apply.pc = "awaiting"
    /\ \E j \in DOMAIN apply.tasks :
          /\ ~apply.tasks[j].settled
          /\ \A k \in 1..(j - 1) : apply.tasks[k].settled
          /\ apply' = [apply EXCEPT !.tasks[j].settled = TRUE]
    /\ UNCHANGED <<cmVars, ctlVars, store, nextId, projects>>

CountAction(tasks, action) == Cardinality({j \in DOMAIN tasks : tasks[j].action = action})

\* Promise.all resolved: summary update, processing progress, next batch or
\* completion progress and return
BatchCollect ==
    /\ apply.pc = "awaiting"
    /\ \A j \in DOMAIN apply.tasks : apply.tasks[j].settled
    /\ LET summary == [apply.actionSummary EXCEPT
                          !.created = @ + CountAction(apply.tasks, "create"),
                          !.updated = @ + CountAction(apply.tasks, "update"),
                          !.deleted = @ + CountAction(apply.tasks, "delete")]
           processed == apply.processed + Len(apply.tasks)
           a == Progress([apply EXCEPT !.actionSummary = summary, !.processed = processed,
                                       !.tasks = <<>>, !.i = @ + BatchSize],
                         "processing", processed)
       IN apply' = IF a.i < Len(a.instructions)
                   THEN [a EXCEPT !.pc = "batch"]
                   ELSE [Progress(a, "complete", Len(a.instructions)) EXCEPT !.pc = "returned"]
    /\ UNCHANGED <<cmVars, ctlVars, store, nextId, projects>>

NextProgress ==
    \/ ProgressStart
    \/ BatchLaunch
    \/ TaskSettle
    \/ BatchCollect

SpecProgress == InitApply /\ [][NextProgress]_vars


(***************************************************************************)
(* Calls of parseInstructionAttributes on bounded inputs                   *)
(***************************************************************************)
\* value texts as they are written in an instruction
Val ==
    [
      \* 'a, b'
      QuotedComma |->
        <<"'", "a", ",", " ", "b", "'">>,
      \* "x=1"
      QuotedEquals |->
        <<"\"", "x", "=", "1", "\"">>,
      \* ' p,q '
      QuotedPadded |->
        <<"'", " ", "p", ",", "q", " ", "'">>,
      \* '12'
      QuotedNumber |->
        <<"'", "1", "2", "'">>,
      \* 'true'
      QuotedTrue |->
        <<"'", "t", "r", "u", "e", "'">>,
      \* 12
      Number |->
        <<"1", "2">>,
      \* True
      True |->
        <<"T", "r", "u", "e">>,
      \* abc
      Plain |->
        <<"a", "b", "c">>
    ]

PairKeys == {Col.description, Col.quantity, Col.cost_type}

\* key=value
PairText(key, value) == key \o <<"=">> \o value

Pairs == {PairText(key, Val[v]) : key \in PairKeys, v \in DOMAIN Val}

\* a key that is not followed by `=`
BareKey == <<"f", "l", "a", "g">>

\* texts of up to n pairs joined by ", "
RECURSIVE PairLists(_)
PairLists(n) ==
    IF n = 0 THEN {<<>>}
    ELSE PairLists(n - 1) \cup
         {IF rest = <<>> THEN p ELSE rest \o <<",", " ">> \o p :
             rest \in PairLists(n - 1) \ {<<>>}, p \in Pairs} \cup Pairs

\* inputs with a bare key alone, before, after and between pairs
BareKeyInputs ==
    {BareKey} \cup
    {BareKey \o <<",", " ">> \o p : p \in Pairs} \cup
    {p \o <<",", " ">> \o BareKey : p \in Pairs} \cup
    {p \o <<",", " ">> \o BareKey \o <<",", " ">> \o q :
        p \in {PairText(Col.quantity, Val.Number)}, q \in Pairs}

ParserInputs == PairLists(MaxPairs) \cup BareKeyInputs

InitParse ==
    /\ connections = EmptyMap
    /\ userConnectionCounts = EmptyMap
    /\ res = <<>>
    /\ ctl = IdleCtl
    /\ gen = IdleGen
    /\ store = EmptyMap
    /\ nextId = 1
    /\ apply \in {[pc |-> "parse", instructionPart |-> t] : t \in ParserInputs}
    /\ projects = EmptyMap

\* parseInstructionAttributes(instructionPart) returns
ParseCall ==
    /\ apply.pc = "parse"
    /\ apply' = [pc |-> "parsed", instructionPart |-> apply.instructionPart,
                 attributes |-> parseInstructionAttributes(apply.instructionPart)]
    /\ UNCHANGED <<cmVars, ctlVars, store, nextId, projects>>


\* the decimal digits of a natural number
RECURSIVE ToDigits(_)
ToDigits(n) ==
    LET d == Digits[(n % 10) + 1]
    IN IF n < 10 THEN <<d>> ELSE Append(ToDigits(n \div 10), d)

\* the text of a value in the key=value notation, strings quoted
ValueText(v) ==
    IF v.t = "str"
    THEN LET q == IF Includes(v.s, <<"'">>) THEN "\"" ELSE "'"
         IN <<q>> \o v.s \o <<q>>
    ELSE IF v.t = "num" THEN ToDigits(v.n)
    ELSE IF v.b THEN <<"t", "r", "u", "e">>
    ELSE <<"f", "a", "l", "s", "e">>

\* the entries of an attribute map as key=value pairs joined by ", "
RECURSIVE Serialize(_)
Serialize(m) ==
    IF DOMAIN m = {} THEN <<>>
    ELSE LET key == CHOOSE k \in DOMAIN m : TRUE
             rest == [k \in DOMAIN m \ {key} |-> m[k]]
             pair == PairText(key, ValueText(m[key]))
         IN IF DOMAIN rest = {} THEN pair
            ELSE pair \o <<",", " ">> \o Serialize(rest)

\* the parsed map is written out and parsed again
ReparseCall ==
    /\ apply.pc = "parsed"
    /\ \E text \in {Serialize(apply.attributes)} :
          apply' = [pc |-> "reparsed", instructionPart |-> apply.instructionPart,
                    attributes |-> apply.attributes, serialized |-> text,
                    reparsed |-> parseInstructionAttributes(text)]
    /\ UNCHANGED <<cmVars, ctlVars, store, nextId, projects>>

NextParse ==
    \/ ParseCall
    \/ ReparseCall

SpecParse == InitParse /\ [][NextParse]_vars


(***************************************************************************)
(* SpecCreate: a generated estimate is persisted, by createProjectFromStream*)
(* for streamEstimate and by handleEstimatorRequest for the buffered       *)
(* endpoint.  ctl is the invocation, with the flag that its conversation   *)
(* row was stored; every store call is one step.                           *)
(***************************************************************************)
\* what the generation handed over: instruction strings (markup mode), or an
\* estimate with lineItems (JSON mode), or neither
Payloads ==
    {[kind |-> "instructions", instructions |-> b, lineItems |-> 0] :
        b \in {<<>>, <<Ins.AddWork>>, <<Ins.UnknownFormat>>,
               <<Ins.AddWork, Ins.NumberDescription>>, <<Ins.AddWork, Ins.AddUnderWork>>}}
    \cup {[kind |-> "lineItems", instructions |-> <<>>, lineItems |-> n] : n \in 0..MaxLineItems}
    \cup {[kind |-> "none", instructions |-> <<>>, lineItems |-> 0]}

\* convertLineItemsToInstructions(lineItems): one { action, type, attributes }
\* object per line item: their number
convertLineItemsToInstructions(lineItems) == lineItems

\* applyLineItemChanges(project.id, user.id, instructions, currency) from
\* instruction i on
RECURSIVE ApplyAll(_, _, _, _, _)
ApplyAll(rows, nid, summary, instructions, i) ==
    IF i > Len(instructions) THEN Outcome(rows, nid, summary, FALSE)
    ELSE LET parentItems == CHOOSE c \in ParentLookups(rows, instructions[i], FALSE) : TRUE
             out == ApplyOne(rows, nid, summary, instructions[i], i, FALSE, parentItems)
         IN IF out.threw THEN out
            ELSE ApplyAll(out.rows, out.nextId, out.summary, instructions, i + 1)

\* applyLineItemChanges on instruction objects: `instruction.trim()` is a
\* TypeError on the first of them
ApplyObjects(rows, nid, count) == Outcome(rows, nid, NewSummary, count > 0)

\* the line-item application of the caller: handleEstimatorRequest always
\* applies `instructions`; createProjectFromStream applies a non-empty
\* `instructions`, else the converted estimateData.lineItems, else nothing
ApplyPayload(rows, nid, caller, payload) ==
    IF caller = "estimator" \/ payload.instructions /= <<>>
    THEN ApplyAll(rows, nid, NewSummary, payload.instructions, 1)
    ELSE IF payload.kind = "lineItems"
    THEN ApplyObjects(rows, nid, convertLineItemsToInstructions(payload.lineItems))
    ELSE Outcome(rows, nid, NewSummary, FALSE)

InitCreate ==
    /\ connections = EmptyMap
    /\ userConnectionCounts = EmptyMap
    /\ res = <<>>
    /\ \E caller \in {"stream", "estimator"}, payload \in Payloads :
          /\ caller = "estimator" => payload.kind = "instructions"
          /\ ctl = [pc |-> "business", caller |-> caller, payload |-> payload,
                    outcome |-> "none", summary |-> NewSummary, conversation |-> FALSE]
    /\ gen = IdleGen
    /\ store = EmptyMap
    /\ nextId = 1
    /\ apply = IdleApply
    /\ projects = EmptyMap

\* the error reaches the caller's catch block: the `warning` event of
\* streamEstimate, the 500 of handleEstimatorRequest
Failed(c) ==
    [c EXCEPT !.pc = "done", !.outcome = IF c.caller = "stream" THEN "warning" ELSE "500"]

\* createProject: the business_users lookup settles
BusinessLookup(found) ==
    /\ ctl.pc = "business"
    /\ ctl' = IF found THEN [ctl EXCEPT !.pc = "insert"] ELSE Failed(ctl)
    /\ UNCHANGED <<cmVars, gen, applyVars>>

\* createProject: the insert into projects settles
ProjectInsert(ok) ==
    /\ ctl.pc = "insert"
    /\ IF ok
       THEN /\ projects' = MapSet(projects, ProjectId, [status |-> "draft", created_by |-> UserId])
            /\ ctl' = [ctl EXCEPT !.pc = "conversation"]
       ELSE /\ projects' = projects
            /\ ctl' = Failed(ctl)
    /\ UNCHANGED <<cmVars, gen, store, nextId, apply>>

\* createProject: the conversation and message inserts settle; their errors
\* are logged and dropped
ConversationStored(ok) ==
    /\ ctl.pc = "conversation"
    /\ ctl' = [ctl EXCEPT !.pc = "apply", !.conversation = ok]
    /\ UNCHANGED <<cmVars, gen, applyVars>>

\* applyLineItemChanges settles
ApplyItems ==
    /\ ctl.pc = "apply"
    /\ \E out \in {ApplyPayload(store, nextId, ctl.caller, ctl.payload)} :
          /\ store' = out.rows
          /\ nextId' = out.nextId
          /\ ctl' = IF out.threw THEN Failed(ctl)
                    ELSE IF ctl.caller = "stream"
                    THEN [ctl EXCEPT !.pc = "done", !.outcome = "project_created",
                                     !.summary = out.summary]
                    ELSE [ctl EXCEPT !.pc = "log", !.summary = out.summary]
    /\ UNCHANGED <<cmVars, gen, apply, projects>>

\* handleEstimatorRequest: logPromptAndActions settles
LogPrompt(ok) ==
    /\ ctl.pc = "log"
    /\ ctl' = IF ok THEN [ctl EXCEPT !.pc = "done", !.outcome = "200"] ELSE Failed(ctl)
    /\ UNCHANGED <<cmVars, gen, applyVars>>

NextCreate ==
    \/ \E found \in BOOLEAN : BusinessLookup(found)
    \/ \E ok \in BOOLEAN : ProjectInsert(ok)
    \/ \E ok \in BOOLEAN : ConversationStored(ok)
    \/ ApplyItems
    \/ \E ok \in BOOLEAN : LogPrompt(ok)

SpecCreate == InitCreate /\ [][NextCreate]_vars

(***************************************************************************)
(* Claims about the connection manager and the streaming session           *)
(***************************************************************************)

\* C1: for every user, after any sequence of add and remove calls (remove of
\* an id never added and repeated removes included), the value returned by
\* getUserConnectionCount is never negative.
C1_CountNeverNegative ==
    \A u \in Users : getUserConnectionCount(userConnectionCounts, u) >= 0

\* a user whose connections have all been removed: its counter is back at 0,
\* the registry is empty, and every further remove is a redundant one
C1_Witness ==
    /\ connections = EmptyMap
    /\ \E u \in DOMAIN userConnectionCounts : userConnectionCounts[u] = 0

\* C2: a /connect request of a user that already has 3 registered connections
\* is answered 429 and registers nothing; any other /connect request is
\* registered; and no user ever owns more than 3 registry entries.
C2_AdmissionControl ==
    /\ [](\A u \in Users : Cardinality(getUserConnections(connections, u)) <= 3)
    /\ [][Len(res') = Len(res) + 1 =>
            LET h == Len(res')
                u == res'[h].user
            IN IF Cardinality(getUserConnections(connections, u)) >= 3
               THEN /\ res'[h].status = 429
                    /\ res'[h].wire = <<>>
                    /\ connections' = connections
                    /\ userConnectionCounts' = userConnectionCounts
               ELSE /\ res'[h].status = 200
                    /\ h \in getUserConnections(connections', u)]_vars

\* a fourth request was rejected while its user holds three connections
C2_Witness ==
    \E h \in DOMAIN res :
        /\ res[h].status = 429
        /\ Cardinality(getUserConnections(connections, res[h].user)) = 3

\* C3 (as claimed): closeAll writes server_shutdown, and ends the stream, only
\* on sessions whose headers were sent, writes nothing to the others, and
\* leaves the registry empty and the count of every owner at 0.
C3_CloseAllClaim ==
    [][CloseAll =>
        /\ \A id \in DOMAIN connections :
              LET h == connections[id].response
              IN IF res[h].headersSent /\ res[h].hasStream
                 THEN /\ res'[h].wire = Append(res[h].wire, "server_shutdown")
                      /\ res'[h].writableEnded
                 ELSE /\ res'[h].wire = res[h].wire
                      /\ res'[h].lateWrites = res[h].lateWrites
        /\ connections' = EmptyMap
        /\ \A id \in DOMAIN connections :
              getUserConnectionCount(userConnectionCounts', connections[id].userId) = 0]_vars

\* C4 (as claimed): once res.stream.end() has been called on a session, no
\* write reaches its response any more.
C4_NoWriteAfterEnd ==
    \A h \in DOMAIN res : res[h].lateWrites = <<>>

(***************************************************************************)
(* Claims about the stream consumer and the streaming controllers          *)
(***************************************************************************)
\* the events on the wire, heartbeat newlines left out
WireEvents(r) == SelectSeq(r.wire, LAMBDA e : e /= "heartbeat")

\* C5 (as claimed): when a streamEstimate or streamEstimateProgress handler
\* has finished, on any path, the transport has been ended and the last
\* event written before the end has type complete or error.
C5_EndsWithCompleteOrError ==
    ctl.pc \in {"done", "rejected"} =>
        /\ res[1].writableEnded
        /\ WireEvents(res[1]) /= <<>>
        /\ Last(WireEvents(res[1])) \in {"complete", "error"}

\* the event order of generateEstimateStream as the claim gives it
OrderStep(q, ev) ==
    CASE ev.type = "error" /\ q \notin {"s7", "s8", "reject"} -> "s8"
      [] q = "s0" /\ ev.type = "ai_start" -> "s1"
      [] q = "s1" /\ ev.type = "progress" /\ ev.stage = "request" -> "s2"
      [] q \in {"s2", "s4"} /\ ev.type = "chunk" -> "s3"
      [] q = "s3" /\ ev.type = "progress" /\ ev.stage = "streaming" -> "s4"
      [] q = "s4" /\ ev.type = "partial" -> "s2"
      [] q \in {"s2", "s4"} /\ ev.type = "ai_complete" -> "s6"
      [] q = "s6" /\ ev.type = "complete" -> "s7"
      [] OTHER -> "reject"

RECURSIVE OrderState(_, _)
OrderState(q, evs) ==
    IF evs = <<>> THEN q ELSE OrderState(OrderStep(q, Head(evs)), Tail(evs))

CountType(evs, type) == Cardinality({i \in 1..Len(evs) : evs[i].type = type})

\* everything the provider stream delivered, concatenated
RECURSIVE FullText(_)
FullText(sent) ==
    IF sent = <<>> THEN <<>> ELSE Head(sent) \o FullText(Tail(sent))

\* C6: the generator yields ai_start, progress(request), groups of chunk,
\* progress(streaming) and optional partial, then ai_complete, then complete;
\* a finished run has yielded exactly one of complete and error, as its last
\* event; and processStreamResponse is called at most once, with everything
\* the provider delivered, once ai_complete has been consumed.
C6_EventOrder ==
    gen.pc /= "idle" =>
        /\ OrderState("s0", gen.yielded) /= "reject"
        /\ gen.pc = "returned" =>
              /\ OrderState("s0", gen.yielded) = "s7"
              /\ Last(gen.yielded).type = "complete"
              /\ CountType(gen.yielded, "complete") = 1
              /\ CountType(gen.yielded, "error") = 0
        /\ gen.pc = "threw" =>
              /\ Last(gen.yielded).type = "error"
              /\ CountType(gen.yielded, "error") = 1
              /\ CountType(gen.yielded, "complete") = 0
        /\ Len(gen.processed) <= 1
        /\ (CountType(gen.yielded, "ai_complete") = 1 /\ gen.pc /= "after_ai_complete") =>
              gen.processed = <<FullText(gen.sent)>>
        /\ CountType(gen.yielded, "ai_complete") = 0 => gen.processed = <<>>

\* a run that returned after two chunks and a partial event
C6_Witness ==
    /\ gen.pc = "returned"
    /\ CountType(gen.yielded, "chunk") >= 2
    /\ CountType(gen.yielded, "partial") >= 1

ErrorCodes ==
    {"QUOTA_ERROR", "TIMEOUT_ERROR", "AUTH_ERROR", "VALIDATION_ERROR", "UNKNOWN_ERROR"}

\* C7: a failure of the provider call, of the token stream or of the final
\* normalization is first yielded as one error event with the message and a
\* classified code, and is thrown to the caller only by the next resumption.
C7_ErrorThenThrow ==
    /\ [](gen.pc /= "idle" =>
            /\ (gen.error /= <<>> \/ gen.pc = "threw") =>
                  /\ gen.yielded /= <<>>
                  /\ Last(gen.yielded).type = "error"
                  /\ Last(gen.yielded).message = gen.error
                  /\ Last(gen.yielded).code \in ErrorCodes
                  /\ CountType(gen.yielded, "error") = 1
            /\ gen.error = <<"Q", "u", "o", "t", "a", " ", "e", "x", "c", "e", "e", "d", "e", "d">> =>
                  Last(gen.yielded).code = "QUOTA_ERROR")
    /\ [][(gen.pc /= "idle" /\ gen'.pc = "threw" /\ gen.pc /= "threw") =>
            /\ gen.pc = "after_error"
            /\ Last(gen.yielded).type = "error"
            /\ gen'.yielded = gen.yielded]_vars

\* the token stream failed after a chunk and the error has propagated
C7_Witness ==
    /\ gen.pc = "threw"
    /\ gen.error \in ProviderErrors
    /\ CountType(gen.yielded, "chunk") >= 1

(***************************************************************************)
(* Claims about the mutation engine                                        *)
(***************************************************************************)
ApplyFinished == apply.pc \in {"returned", "threw"}

CountIn(batch, S) == Cardinality({i \in 1..Len(batch) : batch[i] \in S})

ParentErrors(summary) ==
    {j \in 1..Len(summary.errors) : summary.errors[j].kind = "Could not find parent item"}

Applied(summary) == summary.itemsAdded + summary.itemsUpdated + summary.itemsDeleted

\* C8: a finished batch of N well-formed instructions and one malformed
\* instruction at any position, with no failure reported by the store and every
\* parent resolved, has returned with itemsAdded + itemsUpdated + itemsDeleted = N
\* and exactly one entry in errors.
C8_OneMalformedAmongValid ==
    ( /\ ApplyFinished
      /\ CountIn(apply.instructions, Malformed) = 1
      /\ CountIn(apply.instructions, WellFormed) = Len(apply.instructions) - 1
      /\ apply.faults = 0
      /\ ParentErrors(apply.summary) = {} )
    => /\ apply.pc = "returned"
       /\ Applied(apply.summary) = Len(apply.instructions) - 1
       /\ Len(apply.summary.errors) = 1

\* C9: applyLineItemChanges never throws: every finished batch has returned a
\* summary after processing every instruction of the list, and each malformed
\* instruction has its entry in summary.errors.
C9_NeverAbortsBatch ==
    ApplyFinished =>
        /\ apply.pc = "returned"
        /\ apply.i = Len(apply.instructions) + 1
        /\ \A i \in 1..Len(apply.instructions) :
              apply.instructions[i] \in Malformed =>
                 \E j \in 1..Len(apply.summary.errors) : apply.summary.errors[j].instruction = i

\* the current instruction is a delete of an id that is not in the project
DeletesAbsentId ==
    /\ apply.pc = "running"
    /\ apply.i <= Len(apply.instructions)
    /\ LET t == Trim(apply.instructions[apply.i])
           idMatch == LeadingDigits(SubstringFrom(t, 5))
       IN /\ Branch(apply.instructions[apply.i]) = "delete"
          /\ idMatch /= <<>>
          /\ ~InProject(store, ParseInt(idMatch), ProjectId)

\* C10: a delete `- ID:<n>` of an id that is not in the project, answered by the
\* store without a failure, is a no-op: the table is unchanged, itemsDeleted is
\* not incremented, no error is added and nothing is thrown; and a batch that
\* deletes the same id twice counts at most one deletion.
C10_DeleteAbsentIsNoOp ==
    /\ [][ (DeletesAbsentId /\ apply'.faults = apply.faults)
            => /\ store' = store
               /\ apply'.pc = "running"
               /\ apply'.summary = apply.summary ]_vars
    /\ []( (apply.pc = "returned" /\ apply.instructions = <<Ins.DeleteOne, Ins.DeleteOne>>)
            => apply.summary.itemsDeleted <= 1 )

\* the current instruction is an update `+ ID:<n>, ...` with a numeric id
UpdatesItem ==
    /\ apply.pc = "running"
    /\ apply.i <= Len(apply.instructions)
    /\ Branch(apply.instructions[apply.i]) = "update"
    /\ LeadingDigits(SubstringFrom(Trim(apply.instructions[apply.i]), 5)) /= <<>>

UpdatedId == ParseInt(LeadingDigits(SubstringFrom(Trim(apply.instructions[apply.i]), 5)))

\* the columns an update instruction names, with cost_type when a description is
\* given without cost_type
NamedColumns ==
    LET t == Trim(apply.instructions[apply.i])
        named == parseInstructionAttributes(Trim(SubstringFrom(t, IndexOf(t, ",") + 1)))
    IN {UpdateKey(key) : key \in DOMAIN named} \cup
       (IF Truthy(Attr(named, Col.description)) /\ ~Truthy(Attr(named, Col.cost_type))
        THEN {Col.cost_type} ELSE {})

\* C11: an update `+ ID:<n>, k1=v1, ...` that the store accepts changes, on item
\* n, only columns named in the instruction (and cost_type when description is
\* given without cost_type); every other column of item n and every other item
\* is left unchanged.
C11_UpdateChangesOnlyNamed ==
    [][ (UpdatesItem /\ apply'.pc = "running"
            /\ apply'.summary.itemsUpdated = apply.summary.itemsUpdated + 1)
        => /\ DOMAIN store' = DOMAIN store
           /\ \A id \in DOMAIN store :
                 IF id = UpdatedId
                 THEN \A c \in (DOMAIN store[id]) \cup (DOMAIN store'[id]) :
                         Attr(store'[id], c) /= Attr(store[id], c) => c \in NamedColumns
                 ELSE store'[id] = store[id] ]_vars

\* the current instruction is an add `+ ...` and this step inserts its item
AddsItem ==
    /\ apply.pc = "running"
    /\ apply.i <= Len(apply.instructions)
    /\ Branch(apply.instructions[apply.i]) = "add"
    /\ apply'.pc = "running"
    /\ apply'.summary.itemsAdded = apply.summary.itemsAdded + 1

\* the attributes the current add instruction supplies
Supplied ==
    parseInstructionAttributes(Trim(SubstringFrom(Trim(apply.instructions[apply.i]), 1)))

C13_SuppliedStoredAsGiven ==
    [][ AddsItem
        => \A c \in {Col.quantity, Col.unit_price, Col.amount} :
              c \in DOMAIN Supplied => store'[nextId][c] = Supplied[c] ]_vars

(***************************************************************************)
(* Claims about the streamed progress path                                 *)
(***************************************************************************)
\* the instructions whose processing has started and not completed
InFlight ==
    IF apply.pc = "awaiting"
    THEN {apply.tasks[j].instruction : j \in {k \in DOMAIN apply.tasks : ~apply.tasks[k].settled}}
    ELSE {}

\* C14: instructions of one request are processed strictly one after another:
\* the processing of instruction i has completed before the processing of
\* instruction i+1 starts, so no two instructions are ever in flight together.
C14_OneInstructionAtATime == Cardinality(InFlight) <= 1

\* the action kind applySingleInstruction reports for a branch of
\* applyLineItemChanges
KindOfBranch(branch) ==
    CASE branch = "add" -> "create"
      [] branch = "update" -> "update"
      [] branch = "delete" -> "delete"
      [] OTHER -> "unknown"

\* C15: for every instruction the action kind reported by applySingleInstruction
\* equals the branch applyLineItemChanges takes for it (`+ ID:<n>, ...` update,
\* `- ID:<n>` delete, `+ ...` add, anything else unknown), and a finished
\* progress request has one errors entry per unrecognized instruction.
C15_SameDispatch ==
    /\ apply.pc = "awaiting" =>
          \A j \in DOMAIN apply.tasks :
             apply.tasks[j].action =
                KindOfBranch(Branch(apply.instructions[apply.tasks[j].instruction]))
    /\ (apply.pc = "returned" /\ "actionSummary" \in DOMAIN apply) =>
          Len(apply.actionSummary.errors) =
             Cardinality({j \in DOMAIN apply.instructions :
                             Branch(apply.instructions[j]) = "unknown"})

(***************************************************************************)
(* Claims about parseInstructionAttributes                                 *)
(***************************************************************************)
Parsed == apply.pc \in {"parsed", "reparsed"}

\* the text between the quotes of a quoted value text
Inner(value) == SubSeq(value, 2, Len(value) - 1)

DelimitedValues == {"QuotedComma", "QuotedEquals", "QuotedPadded"}

\* a first pair followed by nothing or by one pair with another key
Followers(key) ==
    {<<>>} \cup {PairText(k, Val[v]) : k \in PairKeys \ {key}, v \in DOMAIN Val}

\* C16: a quoted value containing a comma or `=` is stored as exactly the
\* text between its quotes, and the pair after it is parsed as it is on its own
C16_QuotedDelimitersKept ==
    Parsed =>
        \A key \in PairKeys, v \in DelimitedValues : \A q \in Followers(key) :
            apply.instructionPart =
                PairText(key, Val[v]) \o (IF q = <<>> THEN <<>> ELSE <<",", " ">> \o q)
            => apply.attributes =
                   MapSet(parseInstructionAttributes(q), key, Str(Inner(Val[v])))

QuotedValues ==
    {"QuotedComma", "QuotedEquals", "QuotedPadded", "QuotedNumber", "QuotedTrue"}

\* C17: in a single pair a quoted value becomes a string whatever its
\* content; for the keys cost_type, unit_type and status the value stays a
\* string; otherwise an unquoted true in any case becomes a boolean and an
\* unquoted number becomes a number
C17_TypeCoercion ==
    Parsed =>
        \A key \in PairKeys, v \in DOMAIN Val :
            apply.instructionPart = PairText(key, Val[v])
            => /\ key \in DOMAIN apply.attributes
               /\ IF v \in QuotedValues THEN apply.attributes[key].t = "str"
                  ELSE IF key \in TextFields THEN apply.attributes[key] = Str(Val[v])
                  ELSE IF v = "True" THEN apply.attributes[key] = Bool(TRUE)
                  ELSE IF v = "Number" THEN apply.attributes[key] = Num(12)
                  ELSE apply.attributes[key] = Str(Val[v])

\* the inputs made of one pair, or none, and a bare key before or after it
WithBareKey(p) ==
    IF p = <<>> THEN {BareKey}
    ELSE {BareKey \o <<",", " ">> \o p, p \o <<",", " ">> \o BareKey}

\* C18: the empty instruction parses to the empty map, and a key without `=`
\* adds no entry and leaves the pair next to it as it parses on its own
C18_BareKeySkipped ==
    Parsed =>
        /\ apply.instructionPart = <<>> => apply.attributes = EmptyMap
        /\ \A p \in Pairs \cup {<<>>} :
              apply.instructionPart \in WithBareKey(p)
              => apply.attributes = parseInstructionAttributes(p)

\* C19: writing a parsed map out as key=value pairs and parsing the text
\* again gives the same map
C19_RoundTrip ==
    apply.pc = "reparsed" => apply.reparsed = apply.attributes

(***************************************************************************)
(* Claims about the normalizer                                             *)
(***************************************************************************)
\* C20: on the streaming path a text without an <estimate> element handed to
\* processStreamResponse raises the processing error and never yields a
\* `complete` event, whatever jsonrepair makes of the text
C20_NoEstimateIsHardFailure ==
    gen.pc /= "idle" =>
        \A i \in 1..Len(gen.processed) :
            ~HasEstimate(gen.processed[i])
            => /\ gen.error = ProcessErrorMessage
               /\ \A j \in 1..Len(gen.yielded) : gen.yielded[j].type /= "complete"

(***************************************************************************)
(* Claims about the JSON routes of /api/stream                             *)
(***************************************************************************)
\* the part of the registry that belongs to one user
OwnConnections(conns, userId) ==
    [id \in getUserConnections(conns, userId) |-> conns[id]]

OwnCounts(counts, userId) == [u \in DOMAIN counts \cap {userId} |-> counts[u]]

\* C21: the body of a /stats response is the one the caller would get from a
\* registry that holds the caller's connections and counter only, so it is
\* the same whatever other users have registered
C21_StatsNoninterference ==
    [][\A u \in Users :
          Stats(u) =>
              Last(res').body =
                  UserStats(OwnConnections(connections, u),
                            OwnCounts(userConnectionCounts, u), u)]_vars

\* what a step leaves alone of the users other than u
OthersUntouched(u) ==
    \A v \in Users \ {u} :
        /\ OwnConnections(connections', v) = OwnConnections(connections, v)
        /\ getUserConnectionCount(userConnectionCounts', v) =
               getUserConnectionCount(userConnectionCounts, v)

\* C22: a DELETE for an id the caller does not own is answered 404 and
\* changes neither the registry nor any counter, and no request of a user
\* removes a connection of another user or lowers another user's counter
C22_DeleteAuthorization ==
    [][\A u \in Users :
          /\ \A id \in 0..Len(res) :
                DeleteConnection(u, id) =>
                    /\ OthersUntouched(u)
                    /\ id \notin getUserConnections(connections, u) =>
                          /\ Last(res').status = 404
                          /\ connections' = connections
                          /\ userConnectionCounts' = userConnectionCounts
                          /\ SubSeq(res', 1, Len(res)) = res
          /\ (ConnectApi(u) \/ Stats(u)) => OthersUntouched(u)]_vars

\* a DELETE was answered 404 while another user holds connections, all of
\* them still registered and counted
C22_Witness ==
    \E h \in DOMAIN res :
        /\ res[h].status = 404
        /\ \E v \in Users \ {res[h].user} :
              /\ Cardinality(getUserConnections(connections, v)) = 2
              /\ getUserConnectionCount(userConnectionCounts, v) = 2

\* transports of /connect sessions of a user that are still open
OpenTransports(u) ==
    {h \in DOMAIN res : res[h].user = u /\ res[h].connId /= 0 /\ ~res[h].writableEnded
                        /\ ~res[h].closed}

\* C23: after a DELETE answered 200 the connection is off the registry and
\* its response has been ended, and no user ever has more than 3 open
\* /connect transports
C23_DeleteClosesSession ==
    /\ [][\A u \in Users : \A id \in 1..Len(res) :
            (DeleteConnection(u, id) /\ Last(res').status = 200) =>
                /\ id \notin DOMAIN connections'
                /\ res'[connections[id].response].writableEnded]_vars
    /\ [](\A u \in Users : Cardinality(OpenTransports(u)) <= ConnectionLimit)

(***************************************************************************)
(* Claims about the stream error helpers                                   *)
(***************************************************************************)
\* res.stream exists and the headers have gone out
Initialised(r) == r.hasStream /\ r.headersSent

\* every res.write call on a response, in order
WriteCalls(r) == r.wire \o r.lateWrites

TimedOut == NewError("Operation timed out", "none")

\* C24: when the window elapses on a response that has a stream and is not
\* ended, one error event with recoverable = false is written and the session
\* is ended; on an ended response nothing is written and end is not called;
\* and a cleared timer never fires
C24_TimeoutFires ==
    /\ [][TimeoutFire =>
            IF res[1].hasStream /\ ~res[1].writableEnded
            THEN /\ WriteCalls(res'[1]) =
                        Append(WriteCalls(res[1]), ErrorData(TimedOut, FALSE))
                 /\ res'[1].ends = res[1].ends + 1
            ELSE res' = res]_vars
    /\ [][ctl.timer = "cleared" => ctl'.timer = "cleared" /\ ~TimeoutFire]_vars

\* C25: streamError on an initialised stream writes exactly one error event
\* with the error's message, its code or UNKNOWN_ERROR, and the recoverable
\* flag, and calls end exactly when recoverable is false; without a stream or
\* before the headers it writes nothing and answers 500 with a JSON body
C25_StreamError ==
    [][\A error \in Thrown, recoverable \in BOOLEAN :
          StreamErrorCall(error, recoverable) =>
              IF Initialised(res[1])
              THEN /\ WriteCalls(res'[1]) =
                          Append(WriteCalls(res[1]),
                                 [type |-> "error", error |-> error.message,
                                  code |-> IF error.code = "none" THEN "UNKNOWN_ERROR"
                                           ELSE error.code,
                                  recoverable |-> recoverable])
                   /\ res'[1].ends = res[1].ends + (IF recoverable THEN 0 ELSE 1)
                   /\ res'[1].body = res[1].body
              ELSE /\ WriteCalls(res'[1]) = WriteCalls(res[1])
                   /\ res'[1].status = 500
                   /\ res'[1].body.type = "error"
                   /\ res'[1].body.error = error.message]_vars

\* an initialised session ended by a non-recoverable error event
C25_Witness ==
    /\ ctl.pc = "helpers"
    /\ res[1].ends = 1
    /\ res[1].wire /= <<>>
    /\ Last(res[1].wire).type = "error"
    /\ ~Last(res[1].wire).recoverable
    /\ Last(res[1].wire).code = "TEST_CODE"

NonRecoverableCodes == {"QUOTA_EXCEEDED", "AUTH_FAILED"}

\* C26: handleStreamingError does nothing for EPIPE and ECONNRESET, writes a
\* non-recoverable error and ends the stream for QUOTA_EXCEEDED and
\* AUTH_FAILED, and writes a recoverable error and leaves the stream open for
\* every other code; withStreamErrorHandling does the same and rethrows the
\* error it caught
C26_ErrorMapping ==
    [][\A error \in Thrown :
          (HandleCall(error) \/ WithHandlingRejected(error)) =>
              /\ WithHandlingRejected(error) => ctl'.rethrown = error
              /\ IF error.code \in {"EPIPE", "ECONNRESET"} THEN res' = res
                 ELSE Initialised(res[1]) =>
                        /\ Len(WriteCalls(res'[1])) = Len(WriteCalls(res[1])) + 1
                        /\ Last(WriteCalls(res'[1])).type = "error"
                        /\ Last(WriteCalls(res'[1])).recoverable =
                               (error.code \notin NonRecoverableCodes)
                        /\ res'[1].ends = res[1].ends +
                               (IF error.code \in NonRecoverableCodes THEN 1 ELSE 0)]_vars

\* a quota error went through withStreamErrorHandling: the session is ended
\* by a non-recoverable event and the error was rethrown
C26_Witness ==
    /\ ctl.pc = "helpers"
    /\ ctl.rethrown.code = "QUOTA_EXCEEDED"
    /\ res[1].ends = 1
    /\ res[1].wire /= <<>>
    /\ Last(res[1].wire).type = "error"
    /\ ~Last(res[1].wire).recoverable

\* C27: for a quota-exceeded and for a rate-limited error the error event
\* carries recoverable = true and the handler does not end the stream
C27_ThrottlingRecoverable ==
    [][\A error \in Thrown :
          (HandleCall(error) /\ error.code \in {"QUOTA_EXCEEDED", "RATE_LIMIT"}
                             /\ Initialised(res[1])) =>
              /\ Last(WriteCalls(res'[1])).recoverable
              /\ res'[1].ends = res[1].ends]_vars

(***************************************************************************)
(* Claims about the heartbeat and the client disconnect                    *)
(***************************************************************************)
\* the heartbeat lines written on a response
Heartbeats(r) == SelectSeq(WriteCalls(r), LAMBDA e : e = "heartbeat")

C29_DisconnectDiscardsResult ==
    [][(res /= <<>> /\ res[1].closed /\ ctl.pc /= "idle" /\ ctl.handler = "estimate") =>
          /\ WriteCalls(res'[1]) = WriteCalls(res[1])
          /\ ~CtlProjectSettled(TRUE)]_vars

Registered(h) == \E id \in DOMAIN connections : connections[id].response = h

\* a registered streaming session on a live socket
LiveSession(h) == Registered(h) /\ res[h].hasStream /\ ~res[h].destroyed

BroadcastStep == ctl.pc = "cast" /\ ctl'.broadcasts = ctl.broadcasts + 1

C32_PerUserTracking ==
    /\ [](\A u \in Users :
            LET stats == getStats(connections, userConnectionCounts)
            IN /\ getUserConnectionCount(userConnectionCounts, u)
                    = Cardinality(getUserConnections(connections, u))
               /\ GetOr(stats.userCounts, u, 0)
                    = getUserConnectionCount(userConnectionCounts, u)
               /\ stats.totalConnections = Cardinality(DOMAIN connections))
    /\ [][\A u \in Users :
            getUserConnections(connections', u) = getUserConnections(connections, u)
            => getUserConnectionCount(userConnectionCounts', u)
                 = getUserConnectionCount(userConnectionCounts, u)]_vars

C32_Witness ==
    /\ ctl.pc = "cast"
    /\ Len(res) = MaxCastAdds
    /\ Cardinality(getUserConnections(connections, "u1")) = 2
    /\ getUserConnections(connections, "u2") = {}
    /\ "u2" \in DOMAIN userConnectionCounts

(***************************************************************************)
(* Claims about the streamEstimate request (SpecCtl)                       *)
(***************************************************************************)
GenRunning == gen.pc /= "idle" /\ gen'.pc /= "idle"

YieldsEvent(type) ==
    /\ GenRunning
    /\ Len(gen'.yielded) = Len(gen.yielded) + 1
    /\ Last(gen'.yielded).type = type

ExtractionFails ==
    GenRunning /\ gen'.partialFailures = gen.partialFailures + 1

\* C33: generateEstimateStream yields a `partial` event only when the
\* accumulated text is longer than 300 characters and extractPartialData
\* recognised at least one field, never at 300 characters or below; a failed
\* partial extraction yields nothing, in particular no `error` event, and the
\* generator goes on to wait for the next chunk.
C33_PartialEvents ==
    [][/\ YieldsEvent("partial") =>
             /\ gen.pc = "after_progress"
             /\ TextLength(gen'.accumulatedText) > 300
             /\ Last(gen'.yielded).fields /= {}
             /\ Last(gen'.yielded).fields = extractPartialData(gen'.accumulatedText)
       /\ (GenRunning /\ TextLength(gen'.accumulatedText) <= 300) => ~YieldsEvent("partial")
       /\ ExtractionFails =>
             /\ gen'.yielded = gen.yielded
             /\ gen'.pc = "await_chunk"
             /\ ctl'.pc = "loop"
             /\ res'[1].wire = res[1].wire
             /\ ~res'[1].writableEnded]_vars

\* a partial was sent for one chunk, the extraction failed for another, and
\* the generation still completed
C33_Witness ==
    /\ gen.pc = "returned"
    /\ gen.partialFailures = 1
    /\ \E i \in 1..Len(gen.yielded) :
          gen.yielded[i].type = "partial" /\ gen.yielded[i].fields /= {}
    /\ Last(gen.yielded).type = "complete"

(***************************************************************************)
(* Claims about parents and unknown keys in the mutation engine            *)
(***************************************************************************)
\* the loop finished one instruction without a failure reported by the store
\* for reasons outside the table
Applies(branch) ==
    /\ apply.pc = "running" /\ apply'.pc = "running"
    /\ apply'.i = apply.i + 1
    /\ apply'.faults = apply.faults
    /\ Branch(apply.instructions[apply.i]) = branch

\* the items of the project whose description is the `parent` of the
\* instruction being applied
NamedParents ==
    {id \in DOMAIN store :
        /\ InProject(store, id, ProjectId)
        /\ Attr(store[id], Col.description) = ParentOf(apply.instructions[apply.i])}

UpdateAttributes(instruction) ==
    LET trimmedInstruction == Trim(instruction)
    IN parseInstructionAttributes(
          Trim(SubstringFrom(trimmedInstruction, IndexOf(trimmedInstruction, ",") + 1)))

\* the id an update instruction addresses
UpdateTarget(instruction) == ParseInt(LeadingDigits(SubstringFrom(Trim(instruction), 5)))

\* attribute keys outside the line-item schema
UnknownKeys(instruction) ==
    DOMAIN UpdateAttributes(instruction) \ (TableColumns \cup {Col.parent, Col.parent_id})

\* C35: an update of an existing item with an attribute key outside the
\* fixed line-item schema is not rejected: itemsUpdated is incremented, no
\* error is appended, the key does not become a column of its own and the
\* item's data map, which receives it, changes.
C35_UnknownKeyMerged ==
    [][(/\ Applies("update")
        /\ UnknownKeys(apply.instructions[apply.i]) /= {}
        /\ InProject(store, UpdateTarget(apply.instructions[apply.i]), ProjectId)) =>
        LET id == UpdateTarget(apply.instructions[apply.i])
        IN /\ apply'.summary.itemsUpdated = apply.summary.itemsUpdated + 1
           /\ apply'.summary.errors = apply.summary.errors
           /\ DOMAIN store'[id] = DOMAIN store[id]
           /\ store'[id][Col.data] /= store[id][Col.data]]_vars

(***************************************************************************)
(* Claims about event-loop turns (SpecTurn)                                *)
(***************************************************************************)
RegistryStatements == {"set", "increment", "decrement", "delete"}

\* every entry has its counter increment and every increment its entry
CountersMatchEntries ==
    \A u \in Users :
        getUserConnectionCount(userConnectionCounts, u)
          = Cardinality(getUserConnections(connections, u))

\* C36: no add, remove, broadcast or closeAll call and no /connect handler is
\* suspended with a registry change still to make; whenever a turn can start,
\* every registry entry has its counter increment and no closeAll is part way
\* through the registry: when closeAll reaches its await the registry is
\* empty.
C36_AtomicTurns ==
    /\ ctl.pc = "turn" =>
          \A i \in DOMAIN ctl.suspended :
              ctl.suspended[i].op \notin RegistryStatements \cup {"check", "shutdown", "cast"}
    /\ BetweenTurns => CountersMatchEntries
    /\ (ctl.pc = "turn" /\ ctl.stack /= <<>> /\ Head(ctl.stack).op = "await")
          => connections = EmptyMap

\* closeAll has drained two sessions and waits; a /connect request was served
\* in the meantime
C36_Witness ==
    /\ BetweenTurns
    /\ ctl.suspended /= <<>>
    /\ Cardinality({h \in DOMAIN res : res[h].wire = <<"connection", "server_shutdown">>}) = 2
    /\ Cardinality(DOMAIN connections) = 1
    /\ \E id \in DOMAIN connections : res[id].wire = <<"connection">>

(***************************************************************************)
(* Claim about reused connection ids (SpecCM)                              *)
(***************************************************************************)
RECURSIVE SumCounts(_, _)
SumCounts(counts, users) ==
    IF users = {} THEN 0
    ELSE LET u == CHOOSE x \in users : TRUE
         IN counts[u] + SumCounts(counts, users \ {u})

\* C37: after any sequence of add and remove calls, also with add on an id
\* that is already registered, the per-user counts add up to the number of
\* registry entries, and once every registered id has been removed every
\* per-user count is 0.
C37_CountsMatchUnderReuse ==
    /\ SumCounts(userConnectionCounts, DOMAIN userConnectionCounts)
          = Cardinality(DOMAIN connections)
    /\ connections = EmptyMap =>
          \A u \in Users : getUserConnectionCount(userConnectionCounts, u) = 0

(***************************************************************************)
(* Claims about the end of a streaming request (SpecCtl)                   *)
(***************************************************************************)
\* C38: in streamEstimate and streamEstimateProgress res.stream.end(), and
\* with it res.end(), is called exactly once per request on every path that
\* enters the handler's try block: never twice, and once when the handler
\* is done.
C38_EndExactlyOnce ==
    ctl.pc \in {"loop", "after_loop", "creating", "batch", "done"} =>
        /\ res[1].ends <= 1
        /\ ctl.pc = "done" => res[1].ends = 1

\* res.write calls that carried an event of the given type, before or after
\* the end of the response
Written(r, type) ==
    Cardinality({i \in 1..Len(r.wire) : r.wire[i] = type})
      + Cardinality({i \in 1..Len(r.lateWrites) : r.lateWrites[i] = type})

\* C39: during one streamEstimate request at most one event of type `error`
\* is written to the client.
C39_AtMostOneError ==
    (ctl.pc \in {"loop", "after_loop", "creating", "done"} /\ ctl.handler = "estimate")
        => Written(res[1], "error") <= 1

(***************************************************************************)
(* Claim about project creation (SpecCreate)                               *)
(***************************************************************************)
\* C40: whenever createProjectFromStream throws (the client sees the
\* `warning`) or handleEstimatorRequest answers 500 after the generation, no
\* project row created by the request remains in the store.
C40_AllOrNothing ==
    (ctl.pc = "done" /\ ctl.outcome \in {"warning", "500"}) => projects = EmptyMap

====
